---- MODULE Spec2Model ----
(***************************************************************************)
(* Model of the retrieval pipeline of backend/rag_agent:                   *)
(*   utils/vector_store.py  VectorStoreManager                             *)
(*   tools/vector_search.py VectorSearchTool                               *)
(*                                                                         *)
(* Numbers.  The code computes with Python floats.  The model uses fixed   *)
(* point integers:                                                         *)
(*   - a score in [0,1] (hybrid_score, combined_score, 1/(1+distance)) is  *)
(*     an integer number of 1/SCALE units;                                 *)
(*   - a rerank score in [0,10] is kept divided by ten in the same units   *)
(*     (9.5 is 950000), so that rerank_score / 10 is the stored integer;   *)
(*   - a FAISS distance is an integer number of 1/DistUnit units           *)
(*     (0.5 is 50, the 999.0 of a chunk missing from dense search 99900).  *)
(* Products and quotients round towards zero at 1/SCALE.                   *)
(*                                                                         *)
(* A search result (a Python dict) is a record; a key the dict may lack    *)
(* (hybrid_score, rerank_score, combined_score, merged_chunks) holds       *)
(* Absent when the dict lacks it.  content is the sequence of chunk texts  *)
(* joined by the merge separator, each text named by its chunk id.         *)
(***************************************************************************)
EXTENDS Integers, Sequences, FiniteSets, TLC

SCALE == 1000 * 1000
DistUnit == 10 * 10
Absent == 0 - 1

\* ---- bounds of the model ----
MaxCands == 4          \* longest candidate list handed to _rerank_results
MaxScores == 4         \* longest list of numbers in a rerank response
MaxDivCands == 4       \* longest list handed to _ensure_source_diversity
MaxK == 3              \* largest k of a diversity call
MaxMergeCands == 3     \* longest list handed to _merge_similar_chunks
MaxIdx == 6            \* largest chunk_index of a merge candidate
MaxSearchK == 2        \* largest k of a search

Min(a, b) == IF a < b THEN a ELSE b
Max(a, b) == IF a > b THEN a ELSE b
Abs(a) == IF a < 0 THEN 0 - a ELSE a

\* rerank score x.y on the 0-10 scale, e.g. R(9, 5) = 9.5
R(whole, tenth) == (whole * 10 + tenth) * (SCALE \div 100)
\* a score p/100 in [0,1]
P(hundredths) == hundredths * (SCALE \div 100)

\* x * (num/100), the float product x * 1.15 etc.
Times(x, num) == (x * num) \div 100

\* dict.get(key, default)
Get(v, default) == IF v = Absent THEN default ELSE v

\* The sequence s with every element evaluated once (a list held in memory).
List(s) == s \o <<>>

\* sorted(s, key=K, reverse=True): Python's sort is stable, also with reverse.
SortedDesc(s, K(_)) ==
    LET n == Len(s)
        t == List(s)
        key == List([i \in 1..n |-> K(t[i])])
        rank == List([i \in 1..n |->
                    Cardinality({j \in 1..n : \/ key[j] > key[i]
                                              \/ key[j] = key[i] /\ j < i}) + 1])
    IN  List([p \in 1..n |-> t[CHOOSE i \in 1..n : rank[i] = p]])

\* s[:k]
Take(s, k) == SubSeq(s, 1, Min(Max(k, 0), Len(s)))

\* ------------------------------------------------------------------------
\* _rerank_results
\* ------------------------------------------------------------------------

\* The rerank service's answer, by what the three parsing strategies make of it:
\*   kind "raise": reranker_llm.invoke raises;
\*   kind "list" : the text is a Python/JSON list of the numbers nums;
\*   kind "text" : neither a literal nor JSON; re.findall yields the numbers nums.
\* Strategies 1-3 (lines 695-736).
ParseScores(response, n) ==
    IF response.kind = "list" /\ response.nums # <<>>
    THEN response.nums
    ELSE LET potential_scores == SelectSeq(response.nums,
                                           LAMBDA x : 0 <= x /\ x <= R(10, 0))
             m == Len(potential_scores)
         IN  IF m >= n THEN SubSeq(potential_scores, 1, n)
             ELSE IF m > 0
                  THEN potential_scores \o [i \in 1..(n - m) |-> potential_scores[m]]
                  ELSE <<>>

\* the similarity-based score generated for one result (lines 744-769)
FallbackScore(result) ==
    LET sim == result.similarity_score
        hybrid == Get(result.hybrid_score, 0)
        normalized_sim == Max(0, Min(R(10, 0), (DistUnit - Min(sim, DistUnit)) * (SCALE \div DistUnit)))
        final_score == IF hybrid > 0 THEN Max(normalized_sim, Times(hybrid, 90))
                       ELSE normalized_sim
    IN  IF sim < 50 THEN R(9, 5)
        ELSE IF sim < 70 THEN Max(R(9, 5), final_score)
        ELSE IF sim < 100 THEN Max(R(8, 5), final_score)
        ELSE IF sim < 150 THEN Max(R(7, 5), final_score)
        ELSE final_score

\* lines 739-770: the generated scores are appended to the list `scores`
\* as the parsing left it.
WithFallback(scores, results) ==
    IF scores = <<>> \/ Len(scores) # Len(results)
    THEN scores \o [i \in 1..Len(results) |-> FallbackScore(results[i])]
    ELSE scores

\* lines 773-802, one score; i is the 0-based position
NormalizedScore(s, i, results) ==
    LET score0 == Max(0, Min(R(10, 0), s))
    IN  IF i < Len(results)
        THEN LET result == results[i + 1]
                 sim == result.similarity_score
                 hybrid == Get(result.hybrid_score, 0)
                 score1 == IF sim < 70
                           THEN IF i < 3 THEN Max(score0, R(9, 5))
                                ELSE IF sim < 50 THEN Max(score0, R(9, 0))
                                ELSE Max(score0, R(8, 0))
                           ELSE IF sim < 100 THEN Max(score0, R(7, 0))
                           ELSE score0
             IN  IF hybrid > P(60) THEN Min(R(10, 0), score1 + R(1, 5))
                 ELSE IF hybrid > P(40) THEN Min(R(10, 0), score1 + R(1, 0))
                 ELSE score1
        ELSE score0

\* 1 / (1 + distance), clamped to [0,1] (lines 812, 897)
NormalizedSim(sim) == Max(0, Min(SCALE, (SCALE * DistUnit) \div (DistUnit + sim)))

\* lines 805-844, one result; i is the 0-based position
Combine(result, i, scores) ==
    LET rerank_score == IF i < Len(scores) THEN scores[i + 1] ELSE R(6, 0)
        normalized_sim == NormalizedSim(result.similarity_score)
        hybrid == Get(result.hybrid_score, normalized_sim)
        b0 == (rerank_score * 8 + hybrid * 2) \div 10
        b1 == IF rerank_score >= R(9, 0) THEN Min(SCALE, Times(b0, 120))
              ELSE IF rerank_score >= R(8, 0) THEN Min(SCALE, Times(b0, 115))
              ELSE IF rerank_score >= R(7, 0) THEN Min(SCALE, Times(b0, 110))
              ELSE IF rerank_score >= R(6, 0) THEN Min(SCALE, Times(b0, 105))
              ELSE b0
        b2 == IF normalized_sim > P(80) THEN Min(SCALE, Times(b1, 110))
              ELSE IF normalized_sim > P(60) THEN Min(SCALE, Times(b1, 105))
              ELSE b1
        b3 == IF i = 0 THEN Min(SCALE, Times(b2, 110))
              ELSE IF i < 3 THEN Min(SCALE, Times(b2, 105))
              ELSE b2
    IN  [result EXCEPT !.rerank_score = rerank_score, !.combined_score = b3]

\* lines 860-911, one result of the sorted list; i is the 0-based position
Boost(result, i) ==
    LET sim == result.similarity_score
        current_rerank == Get(result.rerank_score, 0)
        hybrid == Get(result.hybrid_score, 0)
        br0 == IF i = 0
               THEN IF sim < 50 THEN R(10, 0)
                    ELSE IF sim < 70 THEN Max(current_rerank, R(1, 0))
                    ELSE Max(current_rerank, R(9, 0))
               ELSE IF i < 3
               THEN IF sim < 50 THEN Max(current_rerank, R(9, 0))
                    ELSE IF sim < 70 THEN Max(current_rerank, R(8, 5))
                    ELSE Max(current_rerank, R(8, 0))
               ELSE IF sim < 50 THEN Max(current_rerank, R(8, 0))
                    ELSE IF sim < 70 THEN Max(current_rerank, R(7, 0))
                    ELSE Max(current_rerank, R(6, 0))
        boosted_rerank == IF hybrid > P(70) THEN Min(R(10, 0), br0 + R(1, 0))
                          ELSE IF hybrid > P(50) THEN Min(R(10, 0), br0 + R(0, 5))
                          ELSE br0
        b0 == (boosted_rerank * 8 + hybrid * 2) \div 10
        b1 == IF boosted_rerank >= R(9, 0) THEN Min(SCALE, Times(b0, 120))
              ELSE IF boosted_rerank >= R(8, 0) THEN Min(SCALE, Times(b0, 115))
              ELSE IF boosted_rerank >= R(7, 0) THEN Min(SCALE, Times(b0, 110))
              ELSE b0
        b2 == IF i = 0 THEN Min(SCALE, Times(b1, 110)) ELSE b1
    IN  [result EXCEPT !.rerank_score = boosted_rerank, !.combined_score = b2]

CombinedKey(x) == Get(x.combined_score, 0)

\* key of the sorts that rank without rerank scores (lines 925, 1219, 1233):
\* x.get('hybrid_score', 1 - x.get('similarity_score', 1.0))
FusedKey(x) == Get(x.hybrid_score, SCALE - x.similarity_score * (SCALE \div DistUnit))

ResortAfterBoost_Skipped(boosted) == boosted

\* line 914: the list is sorted again after the boost pass
ResortAfterBoost(boosted) == SortedDesc(boosted, CombinedKey)

\* lines 921-927: the except branch
RerankExcept(results, top_k) == Take(SortedDesc(results, FusedKey), top_k)

\* lines 641-919: the try body.  raised is TRUE when the body raised
\* (the service call at line 683 is the statement that can).
RerankTry(response, results, top_k) ==
    IF response.kind = "raise"
    THEN [raised |-> TRUE, value |-> <<>>]
    ELSE LET n == Len(results)
             scores == List(WithFallback(ParseScores(response, n), results))
             normalized_scores == List([j \in 1..Len(scores) |->
                                      NormalizedScore(scores[j], j - 1, results)])
             combined == List([j \in 1..n |-> Combine(results[j], j - 1, normalized_scores)])
             reranked == SortedDesc(combined, CombinedKey)
             boosted == List([j \in 1..n |-> Boost(reranked[j], j - 1)])
         IN  [raised |-> FALSE, value |-> Take(ResortAfterBoost(boosted), top_k)]

\* try ... except Exception (lines 641, 921): what the handler makes of the body
RerankHandler(body, results, top_k) ==
    IF body.raised
    THEN [raised |-> FALSE, value |-> RerankExcept(results, top_k)]
    ELSE body

\* _rerank_results(query, results, top_k) of a manager whose reranker_llm is
\* set iff has_llm.  The value is [raised, value].
RerankResults(has_llm, response, results, top_k) ==
    IF ~has_llm \/ results = <<>>
    THEN [raised |-> FALSE, value |-> Take(results, top_k)]
    ELSE RerankHandler(RerankTry(response, results, top_k), results, top_k)

\* ------------------------------------------------------------------------
\* _hybrid_search and the dense search
\* ------------------------------------------------------------------------

\* 1 / (1 + exp(-bm25_score / 10)) for the raw BM25 scores 0..10 (line 586),
\* rounded at 1/SCALE
Sigmoid(bm25_score) ==
    LET table == <<500000, 524979, 549833, 574442, 598687, 622459,
                   645656, 668187, 689974, 710949, 731058>>
    IN  table[Min(Max(bm25_score, 0), 10) + 1]

NormalizedVectorScore_Raw(distance) == distance * (SCALE \div DistUnit)

\* line 564: 1 / (1 + score)
NormalizedVectorScore(distance) == (SCALE * DistUnit) \div (DistUnit + distance)

\* lines 601-604; vector_weight in hundredths
HybridScore(vector_weight, vector_score, bm25_score) ==
    (vector_weight * vector_score + (100 - vector_weight) * bm25_score) \div 100

\* the dict built for one chunk (lines 606-613 for hybrid search, 1160-1164
\* for dense search, where hybrid is Absent)
MkResult(chunk, distance, hybrid) ==
    [content |-> <<chunk.id>>,
     source_file |-> chunk.source_file,
     chunk_index |-> chunk.chunk_index,
     is_child |-> chunk.is_child,
     similarity_score |-> distance,
     hybrid_score |-> hybrid,
     rerank_score |-> Absent,
     combined_score |-> Absent,
     merged_chunks |-> Absent,
     chunk_indices |-> <<>>,
     parent_context |-> Absent]

FusedResult_MissingAsFar(chunk, distance, bm25, vector_weight) ==
    LET far == IF distance = Absent THEN 999 * DistUnit ELSE distance
    IN  MkResult(chunk, far,
                 HybridScore(vector_weight, NormalizedVectorScore(far),
                             IF bm25 = Absent THEN 0 ELSE Sigmoid(bm25)))

\* the entry of one chunk after steps 3 and 4 of _hybrid_search: distance is
\* Absent when dense search did not return the chunk, bm25 is Absent when
\* BM25 search did not (lines 561-613)
FusedResult(chunk, distance, bm25, vector_weight) ==
    LET vector_score == IF distance = Absent THEN 0 ELSE NormalizedVectorScore(distance)
        bm25_score == IF bm25 = Absent THEN 0 ELSE Sigmoid(bm25)
    IN  MkResult(chunk,
                 IF distance = Absent THEN 999 * DistUnit ELSE distance,
                 HybridScore(vector_weight, vector_score, bm25_score))

\* ------------------------------------------------------------------------
\* _ensure_source_diversity
\* ------------------------------------------------------------------------

\* x.get('hybrid_score', x.get('similarity_score', 0)), lines 1017 and 1023
DiversityKey(x) == Get(x.hybrid_score, x.similarity_score * (SCALE \div DistUnit))

\* the keys of source_groups in insertion order (lines 1002-1007)
SourceOrder(results) ==
    LET n == Len(results)
        firsts == {i \in 1..n : \A j \in 1..(i - 1) :
                                   results[j].source_file # results[i].source_file}
        nth(p) == CHOOSE i \in firsts : Cardinality({j \in firsts : j < i}) = p - 1
    IN  [p \in 1..Cardinality(firsts) |-> results[nth(p)].source_file]

\* max(source_results, key=...): the first of the maximal elements (line 1016)
BestFromSource(results, source) ==
    LET group == {i \in 1..Len(results) : results[i].source_file = source}
        best == CHOOSE i \in group :
                   \A j \in group : \/ DiversityKey(results[j]) < DiversityKey(results[i])
                                    \/ DiversityKey(results[j]) = DiversityKey(results[i]) /\ i <= j
    IN  results[best]

TopPerSource_NoGrouping(results, k) == Take(results, k)

\* lines 1013-1019: one result per source while there is room
TopPerSource(results, k) ==
    LET order == SourceOrder(results)
    IN  [p \in 1..Min(Len(order), Max(k, 0)) |-> BestFromSource(results, order[p])]

\* lines 984-1031
EnsureSourceDiversity(results, k, min_sources) ==
    IF results = <<>> THEN <<>>
    ELSE LET diverse_results == TopPerSource(results, k)
             taken == {diverse_results[p] : p \in 1..Len(diverse_results)}
             remaining == SortedDesc(SelectSeq(results, LAMBDA r : r \notin taken),
                                     DiversityKey)
             room == Max(k - Len(diverse_results), 0)
         IN  Take(diverse_results \o Take(remaining, room), k)

\* ------------------------------------------------------------------------
\* _merge_similar_chunks
\* ------------------------------------------------------------------------

RECURSIVE Concat(_)
Concat(ss) == IF ss = <<>> THEN <<>> ELSE Head(ss) \o Concat(Tail(ss))

SeqMin(s) == CHOOSE x \in {s[i] : i \in 1..Len(s)} : \A i \in 1..Len(s) : x <= s[i]
SeqMax(s) == CHOOSE x \in {s[i] : i \in 1..Len(s)} : \A i \in 1..Len(s) : x >= s[i]

MergedMetadataOf_Last(result, similar_chunks) == similar_chunks[Len(similar_chunks)]

\* whose metadata the merged item keeps: result['metadata'].copy() (line 1089)
MergedMetadataOf(result, similar_chunks) == result

\* lines 1076-1096: the item built from a group of two or more chunks;
\* result is the group's first chunk in list order
MergedResult(result, group) ==
    LET similar_chunks == SortedDesc(group, LAMBDA x : 0 - x.chunk_index)
        m == Len(similar_chunks)
        meta == MergedMetadataOf(result, similar_chunks)
    IN  [content |-> Concat([p \in 1..m |-> similar_chunks[p].content]),
         source_file |-> meta.source_file,
         chunk_index |-> meta.chunk_index,
         is_child |-> meta.is_child,
         similarity_score |-> SeqMin([p \in 1..m |-> similar_chunks[p].similarity_score]),
         hybrid_score |-> SeqMax([p \in 1..m |-> Get(similar_chunks[p].hybrid_score, 0)]),
         rerank_score |-> Absent,
         combined_score |-> Absent,
         merged_chunks |-> m,
         chunk_indices |-> [p \in 1..m |-> similar_chunks[p].chunk_index],
         parent_context |-> Absent]

\* the loop of lines 1052-1100 from position i on, used = used_indices
RECURSIVE MergeFrom(_, _, _)
MergeFrom(results, i, used) ==
    IF i > Len(results) THEN <<>>
    ELSE IF i \in used THEN MergeFrom(results, i + 1, used)
    ELSE LET result == results[i]
             others == {j \in (i + 1)..Len(results) :
                           /\ j \notin used
                           /\ results[j].source_file = result.source_file
                           /\ Abs(result.chunk_index - results[j].chunk_index) <= 3}
             rest == SelectSeq([j \in 1..Len(results) |-> j], LAMBDA j : j \in others)
             group == <<result>> \o [p \in 1..Len(rest) |-> results[rest[p]]]
             item == IF others # {} THEN MergedResult(result, group) ELSE result
         IN  <<item>> \o MergeFrom(results, i + 1, used \cup others \cup {i})

\* lines 1033-1102
MergeSimilarChunks(results) ==
    IF results = <<>> THEN <<>> ELSE MergeFrom(results, 1, {})

\* ------------------------------------------------------------------------
\* Retrieval: FAISS similarity_search_with_score, _bm25_search, _hybrid_search
\* ------------------------------------------------------------------------

\* the positions 1..n of docs by ascending distance, the first fetch_k of them
\* (similarity_search_with_score, lines 552 and 1156)
DenseSearch(docs, dist, fetch_k) ==
    Take(SortedDesc([i \in 1..Len(docs) |-> i], LAMBDA i : 0 - dist[i]), fetch_k)

\* np.argsort(bm25_scores)[::-1][:k] (lines 519-525): ascending, reversed
BM25Search(has_bm25, bm, k) ==
    IF ~has_bm25 THEN <<>>
    ELSE LET n == Len(bm)
             ascending == SortedDesc([i \in 1..n |-> i], LAMBDA i : 0 - bm[i])
         IN  Take([p \in 1..n |-> ascending[n + 1 - p]], k)

\* steps 3 and 4 of _hybrid_search and the sort (lines 557-616) for the
\* positions vector_results and bm25_found the two searches returned; dist
\* and bm are the distances and raw BM25 scores of the chunks for the query
FuseAndSort(docs, chunks, vector_results, bm25_found, dist, bm, vector_weight) ==
    LET bm25_indices == SelectSeq(bm25_found, LAMBDA i : i <= Len(chunks))
        in_vector == {docs[vector_results[p]].id : p \in 1..Len(vector_results)}
        in_bm25 == {chunks[bm25_indices[p]].id : p \in 1..Len(bm25_indices)}
        from_vector ==
            [p \in 1..Len(vector_results) |->
                LET i == vector_results[p]
                IN  FusedResult(docs[i], dist[i],
                                IF docs[i].id \in in_bm25
                                THEN bm[CHOOSE j \in 1..Len(chunks) : chunks[j].id = docs[i].id]
                                ELSE Absent,
                                vector_weight)]
        bm25_only == SelectSeq(bm25_indices, LAMBDA i : chunks[i].id \notin in_vector)
        from_bm25 == [p \in 1..Len(bm25_only) |->
                         FusedResult(chunks[bm25_only[p]], Absent, bm[bm25_only[p]],
                                     vector_weight)]
    IN  SortedDesc(List(from_vector) \o List(from_bm25), LAMBDA x : x.hybrid_score)

\* _hybrid_search(query, k, vector_weight) (lines 531-623)
HybridSearch(docs, chunks, has_bm25, dist, bm, k, vector_weight) ==
    IF docs = <<>> \/ ~has_bm25 THEN <<>>
    ELSE LET fetch_k == k * 5
             results == FuseAndSort(docs, chunks, DenseSearch(docs, dist, fetch_k),
                                    BM25Search(has_bm25, bm, fetch_k), dist, bm,
                                    vector_weight)
         IN  Take(results, k * 2)

\* lines 1155-1164: dense search alone
VectorSearch(docs, dist, fetch_k) ==
    LET found == DenseSearch(docs, dist, fetch_k)
    IN  List([p \in 1..Len(found) |-> MkResult(docs[found[p]], dist[found[p]], Absent)])

\* ------------------------------------------------------------------------
\* search_documents: steps 3-7
\* ------------------------------------------------------------------------

\* the first 150 and the first 50 characters of a content are those of its
\* first chunk text.  The texts t and SharedPrefix + t start with the same
\* 150 characters and differ after them; other texts differ within the
\* first 50.
SharedPrefix == 10 * 10
Prefix150(content) == Head(content) % SharedPrefix
Prefix50(content) == Head(content) % SharedPrefix

\* lines 1173-1175
DedupKey(result) == <<Prefix150(result.content), result.source_file>>

Improves_Always(result, existing) == TRUE

\* lines 1183-1197: does the later occurrence replace the one kept
Improves(result, existing) ==
    LET existing_score == Get(existing.hybrid_score, existing.similarity_score * (SCALE \div DistUnit))
        new_score == Get(result.hybrid_score, result.similarity_score * (SCALE \div DistUnit))
    IN  IF result.hybrid_score # Absent THEN new_score > existing_score
        ELSE new_score < existing_score

\* lines 1169-1197 from position i of all_results on
RECURSIVE DedupFrom(_, _, _)
DedupFrom(all_results, i, unique_results) ==
    IF i > Len(all_results) THEN unique_results
    ELSE LET result == all_results[i]
             same == {p \in 1..Len(unique_results) :
                         DedupKey(unique_results[p]) = DedupKey(result)}
         IN  IF same = {}
             THEN DedupFrom(all_results, i + 1, Append(unique_results, result))
             ELSE LET idx == CHOOSE p \in same : TRUE
                  IN  IF Improves(result, unique_results[idx])
                      THEN DedupFrom(all_results, i + 1,
                                     [unique_results EXCEPT ![idx] = result])
                      ELSE DedupFrom(all_results, i + 1, unique_results)

Deduplicate(all_results) == DedupFrom(all_results, 1, <<>>)

\* lines 1222-1229: reranked + expanded_results without repeated content[:50]
RECURSIVE DedupByPrefix50(_, _)
DedupByPrefix50(rs, seen) ==
    IF rs = <<>> THEN <<>>
    ELSE IF Prefix50(Head(rs).content) \in seen THEN DedupByPrefix50(Tail(rs), seen)
    ELSE <<Head(rs)>> \o DedupByPrefix50(Tail(rs), seen \cup {Prefix50(Head(rs).content)})

\* lines 1231-1234: the ranking without reranking
SortByScore(unique_results, k) == Take(SortedDesc(unique_results, FusedKey), k * 2)

\* lines 1210-1229: step 5 with a reranker configured
RerankStep(query_response, unique_results, k) ==
    LET reranked == RerankResults(TRUE, query_response, unique_results, k * 3).value
        \* the dicts of unique_results are those _rerank_results wrote to
        all_written == RerankResults(TRUE, query_response, unique_results,
                                     Len(unique_results)).value
        written == IF query_response.kind = "raise" THEN unique_results
                   ELSE [p \in 1..Len(unique_results) |->
                            all_written[CHOOSE j \in 1..Len(all_written) :
                                all_written[j].content = unique_results[p].content]]
    IN  IF reranked # <<>> /\ Get(reranked[1].rerank_score, 0) < R(4, 0)
        THEN LET expanded_results == SortByScore(written, k)
             IN  Take(DedupByPrefix50(reranked \o expanded_results, {}), k * 2)
        ELSE reranked

\* step 7, lines 1243-1249
WithParentContext(result) ==
    IF result.is_child THEN [result EXCEPT !.parent_context = 1] ELSE result

FinalResults_AlwaysDiverse(reranked, k, ensure_diversity) ==
    LET final_results == EnsureSourceDiversity(reranked, k, Min(3, k))
    IN  List([p \in 1..Len(final_results) |-> WithParentContext(final_results[p])])

\* steps 6 and 7, lines 1237-1252
FinalResults(reranked, k, ensure_diversity) ==
    LET final_results == IF ensure_diversity
                         THEN EnsureSourceDiversity(reranked, k, Min(3, k))
                         ELSE Take(reranked, k)
    IN  List([p \in 1..Len(final_results) |-> WithParentContext(final_results[p])])

\* ------------------------------------------------------------------------
\* VectorSearchTool.search: the confidence level shown with a result
\* ------------------------------------------------------------------------

\* vector_search.py line 114
HasRerank(results) == results # <<>> /\ results[1].rerank_score # Absent

\* vector_search.py lines 172-206
ConfidenceLevel(has_rerank, result) ==
    IF has_rerank
    THEN LET combined_score == Get(result.combined_score, 0)
             rerank_score == Get(result.rerank_score, 0)
         IN  IF rerank_score >= R(7, 5) \/ (combined_score > P(65) /\ rerank_score >= R(6, 0))
             THEN "Excellent"
             ELSE IF rerank_score >= R(5, 5)
                     \/ (combined_score > P(45) /\ rerank_score >= R(4, 0))
             THEN "Good"
             ELSE IF rerank_score >= R(3, 5) \/ combined_score > P(30)
             THEN "Fair"
             ELSE "Low"
    ELSE LET sim_score == result.similarity_score
         IN  IF sim_score * 10 < 3 * DistUnit THEN "Excellent"
             ELSE IF sim_score * 10 < 5 * DistUnit THEN "Good"
             ELSE IF sim_score * 10 < 8 * DistUnit THEN "Fair"
             ELSE "Low"

\* the levels of the results of one answer (the loop of line 142)
ConfidenceLevels(has_rerank, results) ==
    List([p \in 1..Len(results) |-> ConfidenceLevel(has_rerank, results[p])])

\* ------------------------------------------------------------------------
\* State
\* ------------------------------------------------------------------------

VARIABLES
    rerank_call,      \* one call of _rerank_results: its arguments and its result
    diversity_call,   \* one call of _ensure_source_diversity
    merge_call,       \* one call of _merge_similar_chunks, and of it on its own output
    call,             \* one call of another single function: its name, arguments, result
    embeddings,       \* self.embeddings is set
    reranker_llm,     \* self.reranker_llm is set
    vector_store,     \* the chunks of self.vector_store; <<>> is None
    bm25,             \* self.bm25 is set (it is built over all_chunks)
    all_chunks,       \* self.all_chunks
    disk,             \* the chunks of the index saved at vector_store_path; <<>> is none
    pc,               \* where the search in progress stands
    req,              \* the arguments of the search in progress
    queries,          \* search_documents' queries
    searched,         \* the variants searched so far, each with the query given to the index
    all_results,      \* search_documents' all_results
    unique_results,   \* search_documents' unique_results
    reranked,         \* search_documents' reranked
    ret,              \* what search_documents returned
    tool_ret,         \* what VectorSearchTool.search returned or raised
    trace,            \* the stages and service calls the search has run
    managers,         \* per manager object, the build each index attribute comes from
    tool,             \* the manager of _vector_search_tool_instance
    build,            \* the index build in progress: its manager, number and position
    reader            \* the query running beside it: its manager, position and reads

call_vars == <<rerank_call, diversity_call, merge_call, call>>
manager_vars == <<embeddings, reranker_llm, vector_store, bm25, all_chunks, disk>>
search_vars == <<pc, req, queries, searched, all_results, unique_results, reranked, ret,
                 tool_ret, trace>>
rebuild_vars == <<managers, tool, build, reader>>
vars == <<call_vars, manager_vars, search_vars, rebuild_vars>>

NoCall == [done |-> FALSE]

\* sequences over S of length lo..hi
SeqsOf(S, lo, hi) == UNION {[1..n -> S] : n \in lo..hi}

\* a chunk of the indexed corpus, as process_documents builds it (lines 244-289)
Chunk(id, source, index, is_child) ==
    [id |-> id, source_file |-> source, chunk_index |-> index, is_child |-> is_child]

\* ---- one call of _rerank_results --------------------------------------
\* The candidates are the p-th chunk of the list with the scores of a profile:
\* in hybrid mode the scores _hybrid_search fuses with vector_weight 0.65
\* (line 1152) from a distance and a raw BM25 score, in dense mode a distance
\* alone, or the best_sim and hybrid_score 0 of an item merged from dense
\* results.  The list is in the order of unique_results, which is no sorted
\* order (lines 1166, 1192).
HybridProfiles == {<<20, 5>>, <<60, 0>>, <<Absent, 5>>}
DenseProfiles == {<<20, Absent>>, <<120, Absent>>, <<60, 0>>}

RerankCandidate(p, mode, profile) ==
    IF mode = "hybrid"
    THEN FusedResult(Chunk(p, "A", p, FALSE), profile[1], profile[2], 65)
    ELSE MkResult(Chunk(p, "A", p, FALSE), profile[1], profile[2])

RerankInputs ==
    {List([p \in 1..Len(ps) |-> RerankCandidate(p, "hybrid", ps[p])]) :
        ps \in SeqsOf(HybridProfiles, 0, MaxCands)}
    \cup
    {List([p \in 1..Len(ps) |-> RerankCandidate(p, "dense", ps[p])]) :
        ps \in SeqsOf(DenseProfiles, 0, MaxCands)}

RerankResponses ==
    {[kind |-> "raise", nums |-> <<>>]}
    \cup {[kind |-> "list", nums |-> ns] : ns \in SeqsOf({R(2, 0), R(9, 0)}, 0, MaxScores)}
    \cup {[kind |-> "text", nums |-> ns] : ns \in SeqsOf({R(3, 0), R(12, 0)}, 0, MaxScores)}

RerankCall ==
    /\ ~rerank_call.done
    /\ \E results \in RerankInputs, response \in RerankResponses,
          has_llm \in BOOLEAN, top_k \in {2, MaxCands + 1} :
          /\ has_llm \/ response.kind = "raise"
          /\ rerank_call' = [done |-> TRUE, has_llm |-> has_llm, response |-> response,
                             results |-> results, top_k |-> top_k,
                             out |-> RerankResults(has_llm, response, results, top_k)]
    /\ UNCHANGED <<diversity_call, merge_call, call, manager_vars, search_vars, rebuild_vars>>

\* ---- one call of _ensure_source_diversity -----------------------------
\* The list is `reranked` of search_documents: dense results ranked by
\* distance, hybrid results ranked by hybrid_score (line 1232), or the list
\* _rerank_results returned for an answer with one score per candidate
\* (line 1212).
DiversitySources == {"A", "B", "C"}

DiversityCandidate(p, mode, source, profile) ==
    IF mode = "hybrid"
    THEN FusedResult(Chunk(p, source, p, FALSE), profile[1], profile[2], 65)
    ELSE MkResult(Chunk(p, source, p, FALSE), profile[1], Absent)

RankedLists(mode, profiles, maxlen) ==
    {rs \in {List([p \in 1..Len(sp) |-> DiversityCandidate(p, mode, sp[p][1], sp[p][2])]) :
                sp \in SeqsOf(DiversitySources \X profiles, 0, maxlen)} :
        \A p \in 1..Len(rs) : \A q \in p..Len(rs) : FusedKey(rs[p]) >= FusedKey(rs[q])}

RerankedLists(maxlen) ==
    {RerankResults(TRUE, [kind |-> "list", nums |-> sc[2]], sc[1], Len(sc[1])).value :
        sc \in {x \in RankedLists("hybrid", {<<20, 5>>, <<Absent, 5>>}, maxlen)
                        \X SeqsOf({R(2, 0), R(9, 0)}, 1, maxlen) :
                    Len(x[1]) = Len(x[2])}}

DiversityInputs ==
    RankedLists("dense", {<<20, Absent>>, <<60, Absent>>}, MaxDivCands)
    \cup RankedLists("hybrid", {<<20, 5>>, <<60, 0>>}, MaxDivCands)
    \cup RerankedLists(MaxDivCands - 1)

DiversityCall ==
    /\ ~diversity_call.done
    /\ \E results \in DiversityInputs, k \in 0..MaxK, min_sources \in 1..3 :
          diversity_call' = [done |-> TRUE, results |-> results, k |-> k,
                             min_sources |-> min_sources,
                             out |-> EnsureSourceDiversity(results, k, min_sources)]
    /\ UNCHANGED <<rerank_call, merge_call, call, manager_vars, search_vars, rebuild_vars>>

\* ---- one call of _merge_similar_chunks, then one on its output ---------
\* The list is unique_results of search_documents: distinct chunks of the
\* corpus in any order.  Chunks below `boundary` come from file A, the others
\* from file B (process_documents numbers the chunks file after file); the
\* distances are those of one of two queries.
MergeDistance(query, index) == 20 + 20 * ((index * query + query) % 3)

MergeCandidate(index, boundary, mode, query) ==
    LET chunk == Chunk(index, IF index < boundary THEN "A" ELSE "B", index, FALSE)
    IN  IF mode = "hybrid"
        THEN FusedResult(chunk, MergeDistance(query, index), index % 3, 65)
        ELSE MkResult(chunk, MergeDistance(query, index), Absent)

MergeInputs ==
    {List([p \in 1..Len(ix) |-> MergeCandidate(ix[p], x[1], x[2], x[3])]) :
        ix \in {s \in SeqsOf(0..MaxIdx, 0, MaxMergeCands) :
                   \A p, q \in 1..Len(s) : p # q => s[p] # s[q]},
        x \in {4, MaxIdx + 1} \X {"dense", "hybrid"} \X {1, 2}}

MergeCall ==
    /\ ~merge_call.done
    /\ \E results \in MergeInputs :
          LET once == MergeSimilarChunks(results)
          IN  merge_call' = [done |-> TRUE, results |-> results, once |-> once,
                             twice |-> MergeSimilarChunks(once)]
    /\ UNCHANGED <<rerank_call, diversity_call, call, manager_vars, search_vars, rebuild_vars>>

\* ---- the manager and one search at a time -------------------------------
\* the corpus process_documents yields: three chunks of two files, the second
\* a child chunk of a parent section (lines 244-289)
Corpus == <<Chunk(0, "A", 0, FALSE), Chunk(1, "A", 1, TRUE), Chunk(2, "B", 2, FALSE)>>

OptionNames == {"use_reranking", "use_hyde", "use_hybrid", "use_multi_query",
                "ensure_diversity", "merge_context"}

\* the defaults of search_documents (lines 1104-1107)
DefaultOptions == [o \in OptionNames |-> TRUE]

\* the options a caller of search_documents passes: the defaults, one switched
\* off, or all switched off
ManagerOptions ==
    {DefaultOptions, [o \in OptionNames |-> FALSE]}
    \cup {[DefaultOptions EXCEPT ![o] = FALSE] : o \in OptionNames}

\* VectorSearchTool.search takes three of them and passes the others as True
\* (lines 71-73, 99-108)
ToolOptions ==
    {DefaultOptions}
    \cup {[DefaultOptions EXCEPT ![o] = FALSE] :
             o \in {"use_reranking", "use_hyde", "use_hybrid"}}

BlankQueries == {"", "   "}
Queries == {"q"} \cup BlankQueries

\* str.strip() on the strings of the model (lines 424, 970)
Strip(query) ==
    IF query \in BlankQueries THEN ""
    ELSE IF query = "  variation 2 " THEN "variation 2"
    ELSE query

\* _preprocess_query (lines 412-450): the query names none of gidro_terms
PreprocessQuery(query) == Strip(query)

NoRequest == [entry |-> "none", query |-> "", k |-> 0, options |-> DefaultOptions]
NoReturn == [returned |-> FALSE, raised |-> FALSE, value |-> <<>>]
NoToolReturn ==
    [kind |-> "none", error |-> "", has_rerank |-> FALSE, count |-> 0, levels |-> <<>>]

\* lines 1254-1256: except Exception of search_documents
OuterExcept == [returned |-> TRUE, raised |-> FALSE, value |-> <<>>]

Returned(value) == [returned |-> TRUE, raised |-> FALSE, value |-> value]

\* the answers of the completion service to the multi-query prompt: the call
\* raises, or the answer has no line, a usable variation, or a line of at
\* most 10 characters
MultiQueryAnswers ==
    {[kind |-> "raise", lines |-> <<>>],
     [kind |-> "lines", lines |-> <<>>],
     [kind |-> "lines", lines |-> <<"variation 1">>],
     [kind |-> "lines", lines |-> <<"short">>]}

\* line 973: len(v) > 10 and v != query
UsableVariation(v, query) == Len(v) > 10 /\ v # query

\* lines 944-978: the try body of _generate_multi_queries
MultiQueriesTry(answer, query, num_queries) ==
    IF answer.kind = "raise"
    THEN [raised |-> TRUE, value |-> <<>>]
    ELSE LET variations == SelectSeq(answer.lines, LAMBDA v : UsableVariation(v, query))
         IN  [raised |-> FALSE, value |-> <<query>> \o Take(variations, num_queries - 1)]

\* lines 980-982
MultiQueriesHandler(body, query) ==
    IF body.raised THEN [raised |-> FALSE, value |-> <<query>>] ELSE body

\* _generate_multi_queries (lines 929-982)
GenerateMultiQueries(has_llm, answer, query, num_queries) ==
    IF ~has_llm THEN [raised |-> FALSE, value |-> <<query>>]
    ELSE MultiQueriesHandler(MultiQueriesTry(answer, query, num_queries), query)

\* a query given to the index: the variant, with the hypothetical answer
\* appended or not
SearchQuery(variant, with_answer) == [variant |-> variant, with_answer |-> with_answer]

\* lines 466-498: the try body of _expand_query_with_hyde
HydeTry(answer, query) ==
    IF answer = "raise"
    THEN [raised |-> TRUE, value |-> SearchQuery(query, FALSE)]
    ELSE [raised |-> FALSE, value |-> SearchQuery(query, TRUE)]

\* lines 500-502
HydeHandler(body, query) ==
    IF body.raised THEN [raised |-> FALSE, value |-> SearchQuery(query, FALSE)] ELSE body

\* _expand_query_with_hyde (lines 452-502)
ExpandQueryWithHyde(has_llm, answer, query) ==
    IF ~has_llm THEN [raised |-> FALSE, value |-> SearchQuery(query, FALSE)]
    ELSE HydeHandler(HydeTry(answer, query), query)

\* the distances of the chunks of docs to a query: the values of DistGrid in
\* some order
DistGrid == <<20, 60, 120>>
DistProfiles(docs) ==
    {d \in [1..Len(docs) -> {DistGrid[g] : g \in 1..Len(DistGrid)}] :
        \A i, j \in 1..Len(docs) : d[i] = d[j] => i = j}

\* the raw BM25 scores of the chunks for a query: no chunk shares a term
\* with it, or the last chunk does
BM25Profiles(chunks) ==
    {[i \in 1..Len(chunks) |-> 0],
     [i \in 1..Len(chunks) |-> IF i = Len(chunks) THEN 5 ELSE 0]}

\* the answers of the completion service to the rerank prompt for n candidates
SearchRerankResponses(n) ==
    {[kind |-> "raise", nums |-> <<>>],
     [kind |-> "list", nums |-> <<>>],
     [kind |-> "list", nums |-> [i \in 1..n |-> IF i = 1 THEN R(2, 0) ELSE R(9, 0)]]}

\* no function has been called
NoCalls ==
    /\ rerank_call = NoCall
    /\ diversity_call = NoCall
    /\ merge_call = NoCall
    /\ call = NoCall

\* __init__ (lines 28-79), and no search in progress
InitManager ==
    /\ embeddings = FALSE
    /\ reranker_llm = FALSE
    /\ vector_store = <<>>
    /\ bm25 = FALSE
    /\ all_chunks = <<>>
    /\ pc = "idle"
    /\ req = NoRequest
    /\ queries = <<>>
    /\ searched = <<>>
    /\ all_results = <<>>
    /\ unique_results = <<>>
    /\ reranked = <<>>
    /\ ret = NoReturn
    /\ tool_ret = NoToolReturn
    /\ trace = {}

\* no build and no query of the managers followed by their builds
NoRebuild ==
    /\ managers = <<>>
    /\ tool = 0
    /\ build = [pc |-> "idle"]
    /\ reader = [pc |-> "idle"]

\* a manager is constructed and no index has been saved (lines 28-79)
Init ==
    /\ NoCalls
    /\ InitManager
    /\ disk = <<>>
    /\ NoRebuild

\* VectorStoreManager(...) is constructed anew (lines 28-79), as
\* VectorSearchTool._initialize does (vector_search.py line 53); the saved
\* index stays
NewManager ==
    /\ pc = "idle"
    /\ embeddings
    /\ embeddings' = FALSE
    /\ reranker_llm' = FALSE
    /\ vector_store' = <<>>
    /\ bm25' = FALSE
    /\ all_chunks' = <<>>
    /\ UNCHANGED <<disk, call_vars, search_vars, rebuild_vars>>

\* initialize_embeddings (lines 81-130) with an API key: the reranker is set,
\* or None when its construction raises.  Without a key nothing changes.
InitializeEmbeddings ==
    /\ pc = "idle"
    /\ \E reranker_ok \in BOOLEAN :
          /\ embeddings' = TRUE
          /\ reranker_llm' = reranker_ok
    /\ UNCHANGED <<vector_store, bm25, all_chunks, disk, call_vars, search_vars, rebuild_vars>>

\* initialize_full_pipeline (lines 1287-1325) over the documents of the
\* corpus: initialize_embeddings, create_vector_store (lines 321-359) and
\* save_vector_store (lines 361-380)
InitializeFullPipeline ==
    /\ pc = "idle"
    /\ \E reranker_ok \in BOOLEAN :
          /\ embeddings' = TRUE
          /\ reranker_llm' = reranker_ok
    /\ vector_store' = Corpus
    /\ all_chunks' = Corpus
    /\ bm25' = TRUE
    /\ disk' = Corpus
    /\ UNCHANGED <<call_vars, search_vars, rebuild_vars>>

\* load_vector_store (lines 382-410): the dense index alone is loaded
LoadVectorStore ==
    /\ pc = "idle"
    /\ embeddings
    /\ disk # <<>>
    /\ vector_store' = disk
    /\ UNCHANGED <<embeddings, reranker_llm, bm25, all_chunks, disk,
                   call_vars, search_vars, rebuild_vars>>

\* a caller calls search_documents(query, k, ...) (line 1104)
ManagerSearch ==
    /\ pc = "idle"
    /\ \E query \in Queries, k \in 1..MaxSearchK, options \in ManagerOptions :
          /\ query \in BlankQueries => options = DefaultOptions /\ k = 1
          /\ req' = [entry |-> "manager", query |-> query, k |-> k, options |-> options]
    /\ pc' = "search_documents"
    /\ UNCHANGED <<queries, searched, all_results, unique_results, reranked, ret,
                   tool_ret, trace, manager_vars, call_vars, rebuild_vars>>

\* VectorSearchTool.search(query, k, ...) up to its call of search_documents
\* (lines 71-108).  The tool exists once its manager has embeddings (line 59).
ToolSearch ==
    /\ pc = "idle"
    /\ embeddings
    /\ \E query \in Queries, k \in 1..MaxSearchK, options \in ToolOptions :
          /\ query \in BlankQueries => options = DefaultOptions /\ k = 1
          /\ req' = [entry |-> "tool", query |-> query, k |-> k, options |-> options]
    /\ pc' = IF vector_store = <<>> THEN "done" ELSE "search_documents"
    /\ tool_ret' = IF vector_store = <<>>
                   THEN [kind |-> "raised", error |-> "RuntimeError",
                         has_rerank |-> FALSE, count |-> 0, levels |-> <<>>]
                   ELSE tool_ret
    /\ UNCHANGED <<queries, searched, all_results, unique_results, reranked, ret,
                   trace, manager_vars, call_vars, rebuild_vars>>

\* search_documents up to the loop over the queries (lines 1124-1140)
SearchDocumentsBegin ==
    /\ pc = "search_documents"
    /\ LET ask == req.options.use_multi_query /\ reranker_llm
       IN  \E answer \in IF vector_store # <<>> /\ ask THEN MultiQueryAnswers
                         ELSE {[kind |-> "none", lines |-> <<>>]} :
              LET preprocessed_query == PreprocessQuery(req.query)
                  generated == IF ask
                               THEN GenerateMultiQueries(reranker_llm, answer,
                                                         preprocessed_query, 4)
                               ELSE [raised |-> FALSE, value |-> <<preprocessed_query>>]
              IN  IF vector_store = <<>>
                  THEN /\ ret' = Returned(<<>>)
                       /\ pc' = "returned"
                       /\ UNCHANGED <<queries, trace>>
                  ELSE /\ ret' = IF generated.raised THEN OuterExcept ELSE ret
                       /\ pc' = IF generated.raised THEN "returned" ELSE "search"
                       /\ queries' = generated.value
                       /\ trace' = trace \cup {"preprocess"}
                                   \cup (IF ask THEN {"multi_query_llm"} ELSE {})
                                   \cup (IF answer.kind = "raise"
                                         THEN {"multi_query_failed"} ELSE {})
    /\ UNCHANGED <<req, searched, all_results, unique_results, reranked, tool_ret,
                   manager_vars, call_vars, rebuild_vars>>

\* one round of the loop over the queries (lines 1143-1166).  The embedding
\* call of the index search may fail: _hybrid_search then returns [] (lines
\* 621-623), the dense search raises to line 1254.
SearchVariant ==
    /\ pc = "search"
    /\ Len(searched) < Len(queries)
    /\ LET search_query == queries[Len(searched) + 1]
           ask == req.options.use_hyde /\ reranker_llm
           hybrid == req.options.use_hybrid /\ bm25
       IN  \E answer \in IF ask THEN {"raise", "text"} ELSE {"none"},
              embedded \in BOOLEAN,
              dist \in DistProfiles(vector_store),
              bm \in IF hybrid THEN BM25Profiles(all_chunks) ELSE {<<>>} :
              LET expanded_query ==
                      IF ask THEN ExpandQueryWithHyde(reranker_llm, answer, search_query)
                      ELSE [raised |-> FALSE, value |-> SearchQuery(search_query, FALSE)]
                  fetch_k == IF req.options.use_reranking THEN req.k * 8 ELSE req.k * 3
                  query_results ==
                      IF hybrid
                      THEN IF embedded
                           THEN HybridSearch(vector_store, all_chunks, bm25, dist, bm,
                                             req.k * 3, 65)
                           ELSE <<>>
                      ELSE VectorSearch(vector_store, dist, fetch_k)
                  raised == expanded_query.raised \/ (~hybrid /\ ~embedded)
              IN  /\ searched' = Append(searched, [query |-> expanded_query.value,
                                                   hyde |-> answer])
                  /\ all_results' = IF raised THEN all_results
                                    ELSE all_results \o query_results
                  /\ ret' = IF raised THEN OuterExcept ELSE ret
                  /\ pc' = IF raised THEN "returned"
                           ELSE IF Len(searched) + 1 = Len(queries) THEN "dedup"
                           ELSE "search"
                  /\ trace' = trace \cup (IF ask THEN {"hyde_llm"} ELSE {})
                                    \cup (IF hybrid THEN {"dense_search", "bm25_search"}
                                          ELSE {"dense_search"})
                                    \cup (IF embedded THEN {} ELSE {"embedding_failed"})
    /\ UNCHANGED <<req, queries, unique_results, reranked, tool_ret,
                   manager_vars, call_vars, rebuild_vars>>

\* steps 3 and 4 (lines 1168-1207)
DedupAndMerge ==
    /\ pc = "dedup"
    /\ LET unique == Deduplicate(all_results)
       IN  /\ unique_results' = IF req.options.merge_context
                                THEN MergeSimilarChunks(unique) ELSE unique
           /\ ret' = IF unique = <<>> THEN Returned(<<>>) ELSE ret
           /\ pc' = IF unique = <<>> THEN "returned" ELSE "rerank"
    /\ UNCHANGED <<req, queries, searched, all_results, reranked, tool_ret, trace,
                   manager_vars, call_vars, rebuild_vars>>

\* step 5 (lines 1209-1234)
RerankStage ==
    /\ pc = "rerank"
    /\ LET ask == req.options.use_reranking /\ unique_results # <<>> /\ reranker_llm
       IN  \E response \in IF ask THEN SearchRerankResponses(Len(unique_results))
                           ELSE {[kind |-> "none", nums |-> <<>>]} :
              /\ reranked' = IF ask THEN RerankStep(response, unique_results, req.k)
                             ELSE SortByScore(unique_results, req.k)
              /\ trace' = trace \cup (IF ask THEN {"rerank_llm"} ELSE {})
                                \cup (IF response.kind = "raise"
                                      THEN {"rerank_failed"} ELSE {})
                                \cup (IF response.kind = "list"
                                         /\ Len(response.nums) # Len(unique_results)
                                      THEN {"rerank_mismatch"} ELSE {})
    /\ pc' = "diversity"
    /\ UNCHANGED <<req, queries, searched, all_results, unique_results, ret, tool_ret,
                   manager_vars, call_vars, rebuild_vars>>

\* steps 6 and 7 and the return (lines 1236-1252)
DiversifyAndReturn ==
    /\ pc = "diversity"
    /\ ret' = Returned(FinalResults(reranked, req.k, req.options.ensure_diversity))
    /\ pc' = "returned"
    /\ UNCHANGED <<req, queries, searched, all_results, unique_results, reranked,
                   tool_ret, trace, manager_vars, call_vars, rebuild_vars>>

\* VectorSearchTool.search after search_documents returned (lines 110-295)
ToolFormat ==
    /\ pc = "returned"
    /\ req.entry = "tool"
    /\ LET has_rerank == HasRerank(ret.value)
       IN  tool_ret' = [kind |-> "text", error |-> "",
                        has_rerank |-> has_rerank,
                        count |-> Len(ret.value),
                        levels |-> ConfidenceLevels(has_rerank, ret.value)]
    /\ pc' = "done"
    /\ UNCHANGED <<req, queries, searched, all_results, unique_results, reranked, ret,
                   trace, manager_vars, call_vars, rebuild_vars>>

\* the call is over; the next one starts from fresh locals
Finish ==
    /\ pc = IF req.entry = "tool" THEN "done" ELSE "returned"
    /\ pc' = "idle"
    /\ req' = NoRequest
    /\ queries' = <<>>
    /\ searched' = <<>>
    /\ all_results' = <<>>
    /\ unique_results' = <<>>
    /\ reranked' = <<>>
    /\ ret' = NoReturn
    /\ tool_ret' = NoToolReturn
    /\ trace' = {}
    /\ UNCHANGED <<manager_vars, call_vars, rebuild_vars>>

Next ==
    \/ NewManager
    \/ InitializeEmbeddings
    \/ InitializeFullPipeline
    \/ LoadVectorStore
    \/ ManagerSearch
    \/ ToolSearch
    \/ SearchDocumentsBegin
    \/ SearchVariant
    \/ DedupAndMerge
    \/ RerankStage
    \/ DiversifyAndReturn
    \/ ToolFormat
    \/ Finish

Spec == Init /\ [][Next]_vars

\* the specifications of the single functions: a fresh manager, one call
InitCalls ==
    /\ NoCalls
    /\ InitManager
    /\ disk = <<>>
    /\ NoRebuild

SpecRerank == InitCalls /\ [][RerankCall]_vars
SpecDiversity == InitCalls /\ [][DiversityCall]_vars
SpecMerge == InitCalls /\ [][MergeCall]_vars


\* ------------------------------------------------------------------------
\* Claims about _rerank_results (checked under SpecRerank)
\* ------------------------------------------------------------------------

\* the call reached the scoring: a reranker is configured, there are
\* candidates and the service answered
RerankAnswered ==
    /\ rerank_call.done
    /\ rerank_call.has_llm
    /\ rerank_call.results # <<>>
    /\ rerank_call.response.kind # "raise"

\* how many usable numbers the service's answer holds
ServiceCount(response) ==
    IF response.kind = "list" THEN Len(response.nums)
    ELSE Len(SelectSeq(response.nums, LAMBDA x : 0 <= x /\ x <= R(10, 0)))

\* the code's own test of line 739 on what the parsing produced
ParsedCountDiffers ==
    /\ RerankAnswered
    /\ Len(ParseScores(rerank_call.response, Len(rerank_call.results)))
          # Len(rerank_call.results)

\* the service's answer does not hold one score per candidate: a list that is
\* too short or too long, or free text with fewer numbers than candidates
ServiceCountMismatch ==
    /\ RerankAnswered
    /\ \/ /\ rerank_call.response.kind = "list"
          /\ Len(rerank_call.response.nums) # Len(rerank_call.results)
       \/ /\ rerank_call.response.kind = "text"
          /\ ServiceCount(rerank_call.response) < Len(rerank_call.results)

NonIncreasing(s, K(_)) == \A p \in 1..Len(s) : \A q \in p..Len(s) : K(s[p]) >= K(s[q])

\* fused score descending; ascending distance when only dense search ran
InFusedOrderOf(dense_only, results) ==
    IF dense_only
    THEN NonIncreasing(results, LAMBDA x : 0 - x.similarity_score)
    ELSE NonIncreasing(results, LAMBDA x : x.hybrid_score)

\* the candidates come from dense search alone: none carries a fused score
\* (_hybrid_search gives every candidate a positive one)
FromDenseSearch(results) ==
    \A p \in 1..Len(results) : results[p].hybrid_score \in {Absent, 0}

\* C1: when the number of parsed scores differs from the number of
\* candidates, _rerank_results does not raise and returns the candidates in
\* the order of their fused score, descending.
C1_MismatchGivesFusedOrder ==
    ParsedCountDiffers =>
        /\ ~rerank_call.out.raised
        /\ InFusedOrderOf(FromDenseSearch(rerank_call.results), rerank_call.out.value)

\* the scores a list of returned results carries, by candidate
ScoresOf(value) ==
    [p \in 1..Len(value) |->
        <<value[p].content, value[p].rerank_score, value[p].combined_score>>]

\* C2: when the service's answer does not hold one score per candidate, the
\* scores and the order returned are those of the same candidates under any
\* other such answer, here the answer that holds no number at all.
C2_MismatchedAnswerIsAbandoned ==
    ServiceCountMismatch =>
        ScoresOf(rerank_call.out.value) =
            ScoresOf(RerankResults(TRUE, [kind |-> "text", nums |-> <<>>],
                                   rerank_call.results, rerank_call.top_k).value)

\* C3: the list a completed rerank returns is sorted by the combined_score
\* the candidates carry on return, descending.
C3_RerankedSortedByCombined ==
    RerankAnswered =>
        /\ \A p \in 1..Len(rerank_call.out.value) :
              rerank_call.out.value[p].combined_score # Absent
        /\ NonIncreasing(rerank_call.out.value, CombinedKey)

\* a completed rerank of three or more candidates that moved a candidate to
\* the front and returns different combined scores
C3_Witness ==
    /\ RerankAnswered
    /\ Len(rerank_call.out.value) >= 3
    /\ rerank_call.out.value[1].content # rerank_call.results[1].content
    /\ rerank_call.out.value[1].combined_score
          > rerank_call.out.value[Len(rerank_call.out.value)].combined_score


\* ------------------------------------------------------------------------
\* Claims about _ensure_source_diversity (checked under SpecDiversity)
\* ------------------------------------------------------------------------

SourcesOf(s) == {s[p].source_file : p \in 1..Len(s)}

\* C8: the output has at most k items, and if the input holds at least
\* min_sources distinct sources, the output holds candidates of at least
\* min(min_sources, k) distinct sources.
C8_DiversityGuarantee ==
    diversity_call.done =>
        /\ Len(diversity_call.out) <= diversity_call.k
        /\ Cardinality(SourcesOf(diversity_call.results)) >= diversity_call.min_sources
              => Cardinality(SourcesOf(diversity_call.out))
                    >= Min(diversity_call.min_sources, diversity_call.k)

\* a call where the top k of the input hold fewer sources than asked for
\* and the selection made up for it
C8_Witness ==
    /\ diversity_call.done
    /\ diversity_call.k = 3
    /\ diversity_call.min_sources = 3
    /\ Cardinality(SourcesOf(diversity_call.results)) = 3
    /\ Cardinality(SourcesOf(Take(diversity_call.results, 3))) < 3
    /\ Cardinality(SourcesOf(diversity_call.out)) = 3

\* the score the input list was ranked by: combined_score after a rerank,
\* else hybrid_score, else the distance (lower is better)
RankKey(x) ==
    IF x.combined_score # Absent THEN x.combined_score
    ELSE IF x.hybrid_score \notin {Absent, 0} THEN x.hybrid_score
    ELSE SCALE - x.similarity_score * (SCALE \div DistUnit)

\* C9: the candidate taken for each source is the best of that source under
\* the ranking of the input list, and the backfill holds the best of the
\* remaining candidates, best first.
C9_DiversityTakesBest ==
    diversity_call.done /\ diversity_call.results # <<>> =>
        LET results == diversity_call.results
            out == diversity_call.out
            picks == Min(Cardinality(SourcesOf(results)), diversity_call.k)
            left == {results[p] : p \in 1..Len(results)} \ {out[p] : p \in 1..Len(out)}
        IN  /\ \A p \in 1..Min(picks, Len(out)) : \A q \in 1..Len(results) :
                  results[q].source_file = out[p].source_file
                     => RankKey(results[q]) <= RankKey(out[p])
            /\ \A p \in (picks + 1)..Len(out) :
                  /\ \A q \in p..Len(out) : RankKey(out[p]) >= RankKey(out[q])
                  /\ \A r \in left : RankKey(r) <= RankKey(out[p])

\* ------------------------------------------------------------------------
\* Claims about _merge_similar_chunks (checked under SpecMerge)
\* ------------------------------------------------------------------------

\* C10: merging the output of a merge returns that output unchanged.
C10_MergeIdempotent ==
    merge_call.done => merge_call.twice = merge_call.once

\* a merge that built an item from several chunks and left another item of
\* the same source beside it
C10_Witness ==
    /\ merge_call.done
    /\ \E p, q \in 1..Len(merge_call.once) :
          /\ p # q
          /\ merge_call.once[p].merged_chunks # Absent
          /\ merge_call.once[p].source_file = merge_call.once[q].source_file

\* ------------------------------------------------------------------------
\* Claims about one search (specification Spec)
\* ------------------------------------------------------------------------

\* no reranker is configured, or the rerank call of this search raised
RerankUnavailable == ~reranker_llm \/ "rerank_failed" \in trace

\* the search ran the dense search alone
DenseOnly == "dense_search" \in trace /\ "bm25_search" \notin trace

InFusedOrder(results) == InFusedOrderOf(DenseOnly, results)

Unscored(results) ==
    \A i \in 1..Len(results) :
        results[i].rerank_score = Absent /\ results[i].combined_score = Absent

\* C4: when the rerank service is unavailable (no reranker configured, or the
\* rerank call raises), the candidates handed to the diversity stage are in
\* fused-score order, descending (ascending distance when only dense search
\* ran), and no returned result carries a rerank_score or a combined_score.
C4_UnavailableRerankIsSkipped ==
    /\ (pc = "diversity" /\ RerankUnavailable) => InFusedOrder(reranked)
    /\ (ret.returned /\ RerankUnavailable) => Unscored(ret.value)

\* C5: whatever the multi-query, HyDE and rerank calls of one search_documents
\* call answer or raise, the call returns normally, a failed multi-query call
\* leaves [query], a failed HyDE call leaves the variant unmodified, a failed
\* rerank leaves the candidates in fused-score order, and a search that
\* retrieved candidates does not return an empty list.
C5_CompletionFailuresFallBack ==
    /\ ~ret.raised
    /\ ("multi_query_failed" \in trace /\ pc = "search")
           => queries = <<PreprocessQuery(req.query)>>
    /\ \A i \in 1..Len(searched) :
           searched[i].hyde = "raise"
               => searched[i].query = SearchQuery(queries[i], FALSE)
    /\ (pc = "diversity" /\ "rerank_failed" \in trace) => InFusedOrder(reranked)
    /\ (ret.returned /\ all_results # <<>> /\ "embedding_failed" \notin trace)
           => ret.value # <<>>

\* C6: a search with an empty or whitespace-only query is rejected with an
\* error before any stage runs: nothing is preprocessed, no service is
\* called, no index is searched.
C6_BlankQueryIsRejected ==
    req.query \in BlankQueries /\ req.entry # "none"
        => /\ trace = {}
           /\ pc \notin {"search", "dedup", "rerank", "diversity"}
           /\ ret.returned => ret.raised
           /\ tool_ret.kind \in {"none", "raised"}

\* C7: with no index (no chunk was indexed) a search for a non-blank query
\* returns an empty list and raises nothing, at search_documents and at
\* VectorSearchTool.search; the lexical search alone returns an empty list.
C7_EmptyCorpusGivesEmptyList ==
    (vector_store = <<>> /\ req.entry # "none" /\ req.query \notin BlankQueries)
        => /\ ret.returned => (~ret.raised /\ ret.value = <<>>)
           /\ tool_ret.kind # "raised"
           /\ tool_ret.kind = "text" => tool_ret.count = 0
           /\ \A k \in 1..MaxSearchK :
                  BM25Search(bm25, [i \in 1..Len(all_chunks) |-> 0], k) = <<>>

\* ========================================================================
\* load_documents, process_documents and a merge over the chunks they build
\* ========================================================================

MaxDocChunks == 2

\* dict.get(key, default) on a metadata dict (lines 274-276)
MetaGet(metadata, key, default) ==
    IF key \in DOMAIN metadata THEN metadata[key] ELSE default

\* the files of documents_path, in the order load_documents reads them: the
\* *.txt files (line 146), then the *.pdf files (line 157)
FileOrder == <<"a.txt", "b.txt", "c.pdf">>

IsPdf(name) == name = "c.pdf"

\* the metadata of the Document a loader yields: TextLoader sets 'source'
\* alone (lines 149-151), the PDF branch adds 'filename' (lines 181-187)
LoadedMetadata(name) ==
    IF IsPdf(name) THEN [source |-> name, filename |-> name]
    ELSE [source |-> name]

\* lines 132-197, for the files `names` found in documents_path
LoadDocuments(names) ==
    LET found == SelectSeq(FileOrder, LAMBDA name : name \in names)
    IN  List([d \in 1..Len(found) |-> LoadedMetadata(found[d])])

\* lines 216-267: every document's chunks are appended to all_chunks with a
\* copy of the document's metadata; pieces[d] is the number of chunks the
\* splitters cut document d into
RECURSIVE SplitFrom(_, _, _)
SplitFrom(documents, pieces, d) ==
    IF d > Len(documents) THEN <<>>
    ELSE [c \in 1..pieces[d] |-> documents[d]] \o SplitFrom(documents, pieces, d + 1)

\* lines 272-289: chunk_index is the position i in all_chunks, source_file
\* the 'filename' metadata or 'Unknown'; `source` is the document's path
ProcessDocuments(documents, pieces) ==
    LET split == SplitFrom(documents, pieces, 1)
    IN  List([p \in 1..Len(split) |->
                Chunk(p - 1, MetaGet(split[p], "filename", "Unknown"), p - 1, FALSE)
                    @@ [source |-> MetaGet(split[p], "source", "Unknown")]])

\* ---- process_documents, then one call of _merge_similar_chunks ---------
\* The results are distinct chunks of the processed corpus in any order with
\* their dense distances, as unique_results holds them.
ProcessAndMergeCall ==
    /\ ~call.done
    /\ \E names \in (SUBSET {FileOrder[f] : f \in 1..Len(FileOrder)}) \ {{}} :
          LET documents == LoadDocuments(names)
          IN  \E pieces \in [1..Len(documents) -> 1..MaxDocChunks] :
                 LET chunks == ProcessDocuments(documents, pieces)
                 IN  \E ix \in {s \in SeqsOf(1..Len(chunks), 1, MaxMergeCands) :
                                   \A p, q \in 1..Len(s) : p # q => s[p] # s[q]} :
                        LET results == List([p \in 1..Len(ix) |->
                                MkResult(chunks[ix[p]],
                                         MergeDistance(1, chunks[ix[p]].chunk_index),
                                         Absent)])
                        IN  call' = [done |-> TRUE, fn |-> "process_and_merge",
                                     documents |-> documents, all_chunks |-> chunks,
                                     results |-> results,
                                     merged |-> MergeSimilarChunks(results)]
    /\ UNCHANGED <<rerank_call, diversity_call, merge_call, manager_vars, search_vars, rebuild_vars>>

SpecProcessMerge == InitCalls /\ [][ProcessAndMergeCall]_vars

\* ------------------------------------------------------------------------
\* Claims about merging the chunks of a processed corpus (SpecProcessMerge)
\* ------------------------------------------------------------------------

\* the document a chunk text was cut from
DocumentOf(all_chunks_, id) == all_chunks_[id + 1].source

\* C11: every item _merge_similar_chunks returns is built from chunks of one
\* source document only, and its text is its constituents' texts in
\* ascending chunk position, for the chunks process_documents builds.
C11_MergeWithinOneDocumentInOrder ==
    (call.done /\ call.fn = "process_and_merge") =>
        \A p \in 1..Len(call.merged) :
            LET content == call.merged[p].content
            IN  /\ \A a, b \in 1..Len(content) :
                      DocumentOf(call.all_chunks, content[a])
                          = DocumentOf(call.all_chunks, content[b])
                /\ \A a, b \in 1..Len(content) : a < b => content[a] < content[b]

\* the second half of C11 alone: the text of a merged item is in ascending
\* chunk position
C11_MergedTextInOrder ==
    (call.done /\ call.fn = "process_and_merge") =>
        \A p \in 1..Len(call.merged) :
            LET content == call.merged[p].content
            IN  \A a, b \in 1..Len(content) : a < b => content[a] < content[b]

\* ========================================================================
\* search_documents step 3: the union of the variants' result lists
\* ========================================================================

NumQueries == 4

\* an indexed corpus where two chunks of file A start with the same 150
\* characters
UnionCorpus ==
    <<Chunk(0, "A", 0, FALSE), Chunk(SharedPrefix, "A", 1, FALSE), Chunk(2, "B", 2, FALSE)>>

\* the distances of the chunks to a query variant; variants may tie
UnionDistances == [1..Len(UnionCorpus) -> {20, 60}]

\* query_results of one variant without a BM25 index (lines 1155-1164)
DenseVariants ==
    {VectorSearch(UnionCorpus, dist, fetch_k) : dist \in UnionDistances, fetch_k \in {2, 3}}

\* query_results of one variant with one (line 1152)
HybridVariants ==
    {HybridSearch(UnionCorpus, UnionCorpus, TRUE, dist, bm, 1, 65) :
        dist \in UnionDistances, bm \in BM25Profiles(UnionCorpus)}

\* ---- lines 1143-1199 for the lists the variants returned ---------------
\* _generate_multi_queries is asked for 4 queries (line 1137), so one to
\* four variants are searched, all in the same mode (line 1150)
UnionCall ==
    /\ ~call.done
    /\ \E variants \in {DenseVariants, HybridVariants}, n \in 1..NumQueries :
          \E query_results \in [1..n -> variants] :
             LET all_results_ == Concat(query_results)
             IN  call' = [done |-> TRUE, fn |-> "union",
                          all_results |-> all_results_,
                          unique_results |-> Deduplicate(all_results_)]
    /\ UNCHANGED <<rerank_call, diversity_call, merge_call, manager_vars, search_vars, rebuild_vars>>

SpecUnion == InitCalls /\ [][UnionCall]_vars

\* ------------------------------------------------------------------------
\* Claims about the union of the variants' results (SpecUnion)
\* ------------------------------------------------------------------------

\* two result records are occurrences of one chunk
SameChunk(x, y) == x.content = y.content /\ x.source_file = y.source_file

\* x is at least as good an occurrence as y: fused score in hybrid mode,
\* distance in dense-only mode
AtLeastAsGood(x, y) ==
    IF x.hybrid_score # Absent THEN x.hybrid_score >= y.hybrid_score
    ELSE x.similarity_score <= y.similarity_score

\* C12: after the union of the variants' lists every chunk occurs at most
\* once, the occurrence kept is one of the occurrences the variants returned
\* (its scores are not sums), and none of that chunk's occurrences has a
\* better score.
C12_UnionKeepsBestOccurrence ==
    (call.done /\ call.fn = "union") =>
        LET u == call.unique_results
            a == call.all_results
        IN  /\ \A p, q \in 1..Len(u) : SameChunk(u[p], u[q]) => p = q
            /\ \A p \in 1..Len(u) :
                  /\ \E i \in 1..Len(a) : a[i] = u[p]
                  /\ \A i \in 1..Len(a) : SameChunk(a[i], u[p]) => AtLeastAsGood(u[p], a[i])

\* a later variant returned a chunk with a better score than an earlier one
\* did, in either mode
C12_Witness ==
    /\ call.done /\ call.fn = "union"
    /\ Len(call.unique_results) < Len(call.all_results)
    /\ \E i, j \in 1..Len(call.all_results) :
          /\ i < j
          /\ SameChunk(call.all_results[i], call.all_results[j])
          /\ ~AtLeastAsGood(call.all_results[i], call.all_results[j])
          /\ call.all_results[j].hybrid_score # Absent

\* ========================================================================
\* _hybrid_search: the fusion of the dense and the lexical results
\* ========================================================================

\* vector_weight in hundredths; search_documents passes 0.65 (line 1152),
\* the default is 0.7 (line 531)
FusionWeights == {0, 35, 60, 65, 70, 100}

\* distances of the chunks of Corpus to a query, each chunk at another one
FusionDistances ==
    {d \in [1..Len(Corpus) -> {10, 40, 90}] :
        \A i, j \in 1..Len(Corpus) : d[i] = d[j] => i = j}

\* raw BM25 scores of the chunks of Corpus for a query
FusionBM25Scores == [1..Len(Corpus) -> {0, 2, 5}]

\* ---- one call of _hybrid_search ----------------------------------------
\* The dense search returns the n nearest chunks and the BM25 search the m
\* best ones (each at most fetch_k, line 549; none when the search fails,
\* lines 527-529); `fused` is the list sorted at line 616, `results` its cut
\* at line 619.
HybridCall ==
    /\ ~call.done
    /\ \E dist \in FusionDistances, bm \in FusionBM25Scores,
          n \in 0..Len(Corpus), m \in 0..Len(Corpus),
          k \in 1..2, vector_weight \in {60, 65} :
          LET vector_results == DenseSearch(Corpus, dist, n)
              bm25_indices == BM25Search(TRUE, bm, m)
              fused == FuseAndSort(Corpus, Corpus, vector_results, bm25_indices,
                                   dist, bm, vector_weight)
          IN  call' = [done |-> TRUE, fn |-> "hybrid_search",
                       dist |-> dist, bm |-> bm, k |-> k,
                       vector_weight |-> vector_weight,
                       vector_results |-> vector_results,
                       bm25_indices |-> bm25_indices,
                       fused |-> fused, results |-> Take(fused, k * 2)]
    /\ UNCHANGED <<rerank_call, diversity_call, merge_call, manager_vars, search_vars, rebuild_vars>>

\* ---- lines 564 and 586-604 for one chunk at two distances ---------------
\* raw is the chunk's raw BM25 score, Absent when the BM25 search did not
\* return it
FusionPairCall ==
    /\ ~call.done
    /\ \E vector_weight \in FusionWeights, raw \in {Absent} \cup 0..10,
          d1 \in {0, 1, 10, 40, 90, 120, 250}, d2 \in {1, 10, 40, 90, 120, 250, 999 * DistUnit} :
          /\ d1 < d2
          /\ call' = [done |-> TRUE, fn |-> "fusion_pair",
                      vector_weight |-> vector_weight, bm25 |-> raw,
                      d1 |-> d1, d2 |-> d2,
                      r1 |-> FusedResult(Corpus[1], d1, raw, vector_weight),
                      r2 |-> FusedResult(Corpus[1], d2, raw, vector_weight)]
    /\ UNCHANGED <<rerank_call, diversity_call, merge_call, manager_vars, search_vars, rebuild_vars>>

SpecHybrid == InitCalls /\ [][HybridCall \/ FusionPairCall]_vars

\* ------------------------------------------------------------------------
\* Claims about _hybrid_search (SpecHybrid)
\* ------------------------------------------------------------------------

HybridAnswered == call.done /\ call.fn = "hybrid_search"

\* the positions in Corpus of the chunks each search returned
InDense == {call.vector_results[p] : p \in 1..Len(call.vector_results)}
InLexical == {call.bm25_indices[p] : p \in 1..Len(call.bm25_indices)}

\* w * normalized_dense + (1 - w) * normalized_lexical for the chunk at
\* position i of Corpus, with 0 for the component of a search that did not
\* return the chunk
ExpectedFusedScore(i) ==
    LET normalized_dense ==
            IF i \in InDense THEN (SCALE * DistUnit) \div (DistUnit + call.dist[i]) ELSE 0
        normalized_lexical == IF i \in InLexical THEN Sigmoid(call.bm[i]) ELSE 0
    IN  (call.vector_weight * normalized_dense
            + (100 - call.vector_weight) * normalized_lexical) \div 100

\* C13: every chunk either search returned gets one fused result whose score
\* is w * 1/(1+distance) + (1-w) * normalized lexical score, with 0 for the
\* component of the search that did not return it; the call returns the
\* first k*2 of them.
C13_FusedScoreFormula ==
    HybridAnswered =>
        /\ \A i \in InDense \cup InLexical :
              Cardinality({p \in 1..Len(call.fused) :
                              call.fused[p].content = <<Corpus[i].id>>}) = 1
        /\ \A p \in 1..Len(call.fused) :
              \E i \in InDense \cup InLexical :
                 /\ call.fused[p].content = <<Corpus[i].id>>
                 /\ call.fused[p].hybrid_score = ExpectedFusedScore(i)
        /\ call.results = Take(call.fused, call.k * 2)

\* a call where one chunk came from the dense search alone, one from the
\* BM25 search alone and one from both
C13_Witness ==
    /\ HybridAnswered
    /\ InDense \ InLexical # {}
    /\ InLexical \ InDense # {}
    /\ InDense \cap InLexical # {}
    /\ Len(call.fused) = Len(Corpus)

\* C14: for a weight in [0,1], a fixed lexical score and distances
\* 0 <= d1 < d2, the fused score at d1 is at least the fused score at d2.
C14_FusionMonotoneInDistance ==
    (call.done /\ call.fn = "fusion_pair") =>
        call.r1.hybrid_score >= call.r2.hybrid_score

\* a pair where the closer distance gives the strictly greater fused score
C14_Witness ==
    /\ call.done /\ call.fn = "fusion_pair"
    /\ call.vector_weight \in {60, 65}
    /\ call.bm25 # Absent
    /\ call.r1.hybrid_score > call.r2.hybrid_score

\* the scenario: Corpus is A1, A2, B1; the dense search returns A1 at 0.1
\* and B1 at 0.4, the BM25 search A2 with raw score 5 and B1 with 2; w = 0.6
Scenario ==
    /\ HybridAnswered
    /\ call.vector_weight = 60
    /\ call.vector_results = <<1, 3>>
    /\ call.dist[1] = 10 /\ call.dist[3] = 40
    /\ call.bm25_indices = <<2, 3>>
    /\ call.bm[2] = 5 /\ call.bm[3] = 2
    /\ call.k = 2

\* C15: in the scenario the fused ranking is A1, then B1, then A2.
C15_ScenarioOrder ==
    Scenario =>
        [p \in 1..Len(call.results) |-> call.results[p].content]
            = <<<<Corpus[1].id>>, <<Corpus[3].id>>, <<Corpus[2].id>>>>

\* ========================================================================
\* _generate_multi_queries on the lines of an answer
\* ========================================================================

MaxLines == 3

\* the lines the completion service may answer with: blank ones, one of
\* five, one of ten and some of eleven characters, one with blanks around it
\* and one that repeats the query
AnswerLines ==
    {"", "   ", "short", "ten chars.", "variation 1", "  variation 2 ",
     "what is the depth of the lake"}

MultiQueryInputs == {"q", "what is the depth of the lake"}

\* line 970: the stripped lines of the answer that are not empty
StrippedLines(lines) ==
    SelectSeq([p \in 1..Len(lines) |-> Strip(lines[p])], LAMBDA line : line # "")

\* ---- one call of _generate_multi_queries (lines 929-982) ----------------
\* num_queries is 4 in search_documents (line 1137) and 3 by default
MultiQueryCall ==
    /\ ~call.done
    /\ \E has_llm \in BOOLEAN, query \in MultiQueryInputs, num_queries \in 1..NumQueries,
          kind \in {"raise", "lines"}, lines \in SeqsOf(AnswerLines, 0, MaxLines) :
          /\ kind = "raise" => lines = <<>>
          /\ LET answer == [kind |-> kind, lines |-> StrippedLines(lines)]
                 out == GenerateMultiQueries(has_llm, answer, query, num_queries)
             IN  call' = [done |-> TRUE, fn |-> "generate_multi_queries",
                          has_llm |-> has_llm, query |-> query,
                          num_queries |-> num_queries, kind |-> kind,
                          lines |-> lines, out |-> out]
    /\ UNCHANGED <<rerank_call, diversity_call, merge_call, manager_vars, search_vars, rebuild_vars>>

SpecMultiQuery == InitCalls /\ [][MultiQueryCall]_vars

\* ------------------------------------------------------------------------
\* Claims about _generate_multi_queries (SpecMultiQuery)
\* ------------------------------------------------------------------------

MultiQueryAnswered == call.done /\ call.fn = "generate_multi_queries"

\* the suggestions of the answer: its lines without the blanks around them
Suggestions ==
    IF call.has_llm /\ call.kind = "lines"
    THEN [p \in 1..Len(call.lines) |-> Strip(call.lines[p])]
    ELSE <<>>

\* C16 without its last clause: the call never raises and returns a list
\* that starts with the query, has 1 to num_queries elements, and holds no
\* other element that is empty, equal to the query or shorter than 10
\* characters.
C16_ListShape ==
    MultiQueryAnswered =>
        LET value == call.out.value
        IN  /\ ~call.out.raised
            /\ Len(value) \in 1..call.num_queries
            /\ value[1] = call.query
            /\ \A p \in 2..Len(value) :
                  value[p] # "" /\ value[p] # call.query /\ Len(value[p]) >= 10

\* C16: for every query and every response of the completion service the
\* call returns a list that starts with the query, has 1 to num_queries
\* elements and no other element that is empty, equal to the query or
\* shorter than 10 characters; and the filter discards no suggestion of 10
\* or more characters that differs from the query, so the other elements
\* are the first num_queries - 1 such suggestions.
C16_MultiQueryContract ==
    MultiQueryAnswered =>
        /\ C16_ListShape
        /\ Tail(call.out.value)
              = Take(SelectSeq(Suggestions,
                               LAMBDA v : Len(v) >= 10 /\ v # call.query),
                     call.num_queries - 1)

\* ========================================================================
\* VectorSearchTool.search: the confidence levels of a list of results
\* ========================================================================

\* distances of the chunks of Corpus to a query, over the bands of lines
\* 195-206
FormatDistances ==
    {d \in [1..Len(Corpus) -> {10, 20, 40, 60, 90, 120}] :
        \A i, j \in 1..Len(Corpus) : d[i] = d[j] => i = j}

\* the answers of the rerank service for the three candidates: no number,
\* or a list of three scores
FormatResponses ==
    {[kind |-> "text", nums |-> <<>>]}
    \cup {[kind |-> "list", nums |-> ns] :
            ns \in [1..Len(Corpus) -> {R(1, 0), R(5, 0), R(9, 0)}]}

\* ---- lines 114 and 142-210 for the results search_documents returned ----
\* The results are those of a dense search, reranked or not (lines
\* 1210-1234).  dense_levels are the levels the branch of lines 193-206 gives
\* the same results.
FormatCall ==
    /\ ~call.done
    /\ \E dist \in FormatDistances, use_reranking \in BOOLEAN, response \in FormatResponses :
          LET found == VectorSearch(Corpus, dist, Len(Corpus))
              results == IF use_reranking
                         THEN RerankResults(TRUE, response, found, Len(found)).value
                         ELSE found
              has_rerank == HasRerank(results)
          IN  /\ ~use_reranking => response.nums = <<>>
              /\ call' = [done |-> TRUE, fn |-> "format",
                          response |-> response, results |-> results,
                          has_rerank |-> has_rerank,
                          levels |-> ConfidenceLevels(has_rerank, results),
                          dense_levels |-> ConfidenceLevels(FALSE, results)]
    /\ UNCHANGED <<rerank_call, diversity_call, merge_call, manager_vars, search_vars, rebuild_vars>>

SpecFormat == InitCalls /\ [][FormatCall]_vars

\* ------------------------------------------------------------------------
\* Claims about the confidence levels (SpecFormat)
\* ------------------------------------------------------------------------

\* C17: a result is shown with the same confidence level whether the branch
\* used after a rerank or the branch used without one formats it.  Stated
\* for the results whose rerank scores were generated from their distances
\* alone (the service's answer held no score), so that the branch is the
\* only difference between the two levels.
C17_SameLevelOnBothPaths ==
    (call.done /\ call.fn = "format" /\ call.has_rerank /\ call.response.nums = <<>>) =>
        call.levels = call.dense_levels

\* ------------------------------------------------------------------------
\* Claims about the options of search_documents (Spec)
\* ------------------------------------------------------------------------

Enabled(option) == req.options[option]

\* search_documents has returned and its caller has not yet gone on
SearchReturned == pc = "returned"

\* what a returned search shows of the stages of its disabled options
DisabledStagesAbsent ==
    /\ ret.returned /\ ~ret.raised
    /\ ~Enabled("use_hybrid") => "bm25_search" \notin trace
    /\ ~Enabled("use_reranking") =>
          /\ "rerank_llm" \notin trace
          /\ \A p \in 1..Len(ret.value) : ret.value[p].rerank_score = Absent
    /\ ~Enabled("use_hyde") =>
          /\ "hyde_llm" \notin trace
          /\ \A p \in 1..Len(searched) :
                searched[p].hyde = "none" /\ ~searched[p].query.with_answer
    /\ ~Enabled("use_multi_query") =>
          "multi_query_llm" \notin trace /\ Len(searched) <= 1
    /\ ~Enabled("merge_context") =>
          \A p \in 1..Len(ret.value) : ret.value[p].merged_chunks = Absent
    /\ ~Enabled("ensure_diversity") =>
          [p \in 1..Len(ret.value) |-> [ret.value[p] EXCEPT !.parent_context = Absent]]
              = Take(reranked, req.k)

\* the stages of the enabled options have run where the manager has what
\* they need
EnabledStagesRun ==
    /\ (Enabled("use_multi_query") /\ reranker_llm /\ vector_store # <<>>)
          => "multi_query_llm" \in trace
    /\ (Enabled("use_hyde") /\ reranker_llm /\ searched # <<>>) => "hyde_llm" \in trace
    /\ (Enabled("use_hybrid") /\ bm25 /\ searched # <<>>) => "bm25_search" \in trace
    /\ (Enabled("use_reranking") /\ reranker_llm /\ unique_results # <<>>)
          => "rerank_llm" \in trace

\* a search in progress has a next step: the loop over the variants goes on
\* until every variant is searched, and the other steps follow each other
SearchCanProceed ==
    /\ pc \in {"idle", "search_documents", "search", "dedup", "rerank", "diversity",
               "returned", "done"}
    /\ pc = "search" => Len(searched) < Len(queries)
    /\ pc \in {"dedup", "rerank", "diversity"} => ~ret.returned

\* C18: the six options default to enabled; a search with an option disabled
\* runs without that option's stage (no BM25 search, no rerank call, no
\* hypothetical answer, one variant, no merged item, the top k of the ranked
\* list as it is) and with the stages of the enabled options; and it goes on
\* to its return, which is a list and no exception.
C18_DisabledOptionRemovesItsStage ==
    /\ \A option \in OptionNames : DefaultOptions[option]
    /\ SearchReturned => (DisabledStagesAbsent /\ EnabledStagesRun)
    /\ SearchCanProceed

\* a search with reranking alone disabled has returned results found by the
\* hybrid search of two variants
C18_Witness ==
    /\ SearchReturned
    /\ req.options = [DefaultOptions EXCEPT !["use_reranking"] = FALSE]
    /\ Len(searched) = 2
    /\ {"multi_query_llm", "hyde_llm", "bm25_search"} \subseteq trace
    /\ ret.value # <<>>

\* ========================================================================
\* An index rebuild beside a running query
\* ========================================================================
\* Builds are numbered; an attribute of a manager holds the number of the
\* build its value comes from, 0 for None.  One thread rebuilds the index,
\* another runs a hybrid or dense query and notes each attribute it reads.

MaxBuilds == 2
MaxVariants == 2

NoIndex == [vector_store |-> 0, all_chunks |-> 0, bm25 |-> 0]

\* a manager after initialize_full_pipeline (lines 1287-1325)
BuiltIndex(n) == [vector_store |-> n, all_chunks |-> n, bm25 |-> n]

\* a manager after load_vector_store alone (lines 400-404), as
\* VectorSearchTool._initialize leaves it (vector_search.py lines 53-63)
LoadedIndex(n) == [vector_store |-> n, all_chunks |-> 0, bm25 |-> 0]

\* the global tool holds manager 1, whose index is build 1
InitRebuild ==
    /\ NoCalls
    /\ InitManager
    /\ disk = <<>>
    /\ managers \in {<<BuiltIndex(1)>>, <<LoadedIndex(1)>>}
    /\ tool = 1
    /\ build = [pc |-> "idle", n |-> 1]
    /\ reader = [pc |-> "idle"]

UnchangedButRebuild == UNCHANGED <<call_vars, manager_vars, search_vars>>

\* create_vector_store is called on the tool's manager (lines 321-337)
CreateVectorStoreBegin ==
    /\ build.pc = "idle"
    /\ build.n < MaxBuilds + 1
    /\ build' = [pc |-> "line 342", n |-> build.n + 1, manager |-> tool]
    /\ UNCHANGED <<managers, tool, reader>>
    /\ UnchangedButRebuild

\* line 342: self.vector_store = FAISS.from_documents(...)
CreateSetVectorStore ==
    /\ build.pc = "line 342"
    /\ managers' = [managers EXCEPT ![build.manager].vector_store = build.n]
    /\ build' = [build EXCEPT !.pc = "line 347"]
    /\ UNCHANGED <<tool, reader>>
    /\ UnchangedButRebuild

\* line 347: self.all_chunks = documents
CreateSetAllChunks ==
    /\ build.pc = "line 347"
    /\ managers' = [managers EXCEPT ![build.manager].all_chunks = build.n]
    /\ build' = [build EXCEPT !.pc = "line 352"]
    /\ UNCHANGED <<tool, reader>>
    /\ UnchangedButRebuild

\* line 352: self.bm25 = BM25Okapi(...), and the return
CreateSetBM25 ==
    /\ build.pc = "line 352"
    /\ managers' = [managers EXCEPT ![build.manager].bm25 = build.n]
    /\ build' = [pc |-> "idle", n |-> build.n]
    /\ UNCHANGED <<tool, reader>>
    /\ UnchangedButRebuild

\* initialize_vector_store up to its assignment (vector_search.py lines
\* 436-439): create_vector_store_from_documents builds and saves the index
\* in a manager of its own, which no query holds
InitializeVectorStoreBuild ==
    /\ build.pc = "idle"
    /\ build.n < MaxBuilds + 1
    /\ managers' = Append(managers, BuiltIndex(build.n + 1))
    /\ build' = [pc |-> "saved", n |-> build.n + 1, manager |-> Len(managers) + 1]
    /\ UNCHANGED <<tool, reader>>
    /\ UnchangedButRebuild

\* vector_search.py lines 443-447: a new VectorSearchTool loads the saved
\* index into a new manager and replaces the global instance
ReplaceTool ==
    /\ build.pc = "saved"
    /\ managers' = Append(managers, LoadedIndex(build.n))
    /\ tool' = Len(managers) + 1
    /\ build' = [pc |-> "idle", n |-> build.n]
    /\ UNCHANGED reader
    /\ UnchangedButRebuild

\* a query gets the tool instance and enters search_documents (vector_search.py
\* line 99, vector_store.py line 1124)
QueryBegin ==
    /\ reader.pc = "idle"
    /\ managers[tool].vector_store # 0
    /\ reader' = [pc |-> "variant", manager |-> tool, variant |-> 1,
                  reads |-> <<[attribute |-> "vector_store",
                               n |-> managers[tool].vector_store]>>]
    /\ UNCHANGED <<managers, tool, build>>
    /\ UnchangedButRebuild

Read(attribute) ==
    Append(reader.reads, [attribute |-> attribute, n |-> managers[reader.manager][attribute]])

\* lines 1150 and 543: `use_hybrid and self.bm25` picks the search
QueryVariant ==
    /\ reader.pc = "variant"
    /\ reader' = [reader EXCEPT
                     !.pc = IF managers[reader.manager].bm25 # 0
                            THEN "line 552" ELSE "line 1156",
                     !.reads = IF managers[reader.manager].bm25 # 0
                               THEN Read("bm25") ELSE reader.reads]
    /\ UNCHANGED <<managers, tool, build>>
    /\ UnchangedButRebuild

\* line 1156 (dense search alone) or line 552 (the dense search of
\* _hybrid_search): self.vector_store is searched
QueryDenseSearch ==
    /\ reader.pc \in {"line 552", "line 1156"}
    /\ reader' = [reader EXCEPT
                     !.pc = IF reader.pc = "line 552" THEN "line 520" ELSE "next",
                     !.reads = Read("vector_store")]
    /\ UNCHANGED <<managers, tool, build>>
    /\ UnchangedButRebuild

\* lines 515-523: _bm25_search ranks the positions by self.bm25's scores
QueryBM25Search ==
    /\ reader.pc = "line 520"
    /\ reader' = [reader EXCEPT
                     !.pc = IF managers[reader.manager].bm25 # 0
                            THEN "line 580" ELSE "next",
                     !.reads = IF managers[reader.manager].bm25 # 0
                               THEN Read("bm25") ELSE reader.reads]
    /\ UNCHANGED <<managers, tool, build>>
    /\ UnchangedButRebuild

\* lines 578-580: the positions are looked up in self.all_chunks
QueryLookupChunks ==
    /\ reader.pc = "line 580"
    /\ reader' = [reader EXCEPT !.pc = "next", !.reads = Read("all_chunks")]
    /\ UNCHANGED <<managers, tool, build>>
    /\ UnchangedButRebuild

\* line 1143: the next variant, or the rest of search_documents, which
\* reads no index
QueryNext ==
    /\ reader.pc = "next"
    /\ reader' = IF reader.variant < MaxVariants
                 THEN [reader EXCEPT !.pc = "variant", !.variant = reader.variant + 1]
                 ELSE [reader EXCEPT !.pc = "returned"]
    /\ UNCHANGED <<managers, tool, build>>
    /\ UnchangedButRebuild

\* the query is over; another one may start
QueryEnd ==
    /\ reader.pc = "returned"
    /\ reader' = [pc |-> "idle"]
    /\ UNCHANGED <<managers, tool, build>>
    /\ UnchangedButRebuild

NextRebuild ==
    \/ CreateVectorStoreBegin
    \/ CreateSetVectorStore
    \/ CreateSetAllChunks
    \/ CreateSetBM25
    \/ InitializeVectorStoreBuild
    \/ ReplaceTool
    \/ QueryBegin
    \/ QueryVariant
    \/ QueryDenseSearch
    \/ QueryBM25Search
    \/ QueryLookupChunks
    \/ QueryNext
    \/ QueryEnd

SpecRebuild == InitRebuild /\ [][NextRebuild]_vars

\* ------------------------------------------------------------------------
\* Claims about a rebuild beside a query (SpecRebuild)
\* ------------------------------------------------------------------------

\* C19: under any interleaving of a rebuild with a query, everything the
\* query reads of the index (dense index, lexical index, chunk list) comes
\* from one build, the one the query started on.
C19_QueryReadsOneBuild ==
    reader.pc # "idle" =>
        \A p \in 1..Len(reader.reads) : reader.reads[p].n = reader.reads[1].n

\* the part of C19 that concerns initialize_vector_store: the index of a
\* manager other than the global tool's is never written, so a query that
\* holds the replaced tool finishes on the index it started on
ReplacedToolKeepsItsIndex ==
    [][\A m \in 1..Len(managers) : m # tool => managers'[m] = managers[m]]_vars

\* ========================================================================
\* The objects a query writes
\* ========================================================================
\* The heap is a sequence of objects.  Objects 1..Len(Corpus) are the indexed
\* Documents, each with its page_content and its metadata dict; a query
\* appends the dicts it creates.  A result dict refers to the metadata dict of
\* a Document ([ref |-> i], lines 608 and 1162) or owns a copy of one
\* ([own |-> dict], line 1089).

MaxHits == 2

\* a chunk as process_documents leaves it (lines 244-292)
IndexedDocument(chunk) ==
    [page_content |-> <<chunk.id>>,
     metadata |-> [source_file |-> chunk.source_file,
                   chunk_index |-> chunk.chunk_index,
                   is_child |-> chunk.is_child,
                   parent_content_preview |-> IF chunk.is_child THEN 1 ELSE Absent]]

IndexedHeap == [i \in 1..Len(Corpus) |-> IndexedDocument(Corpus[i])]

\* result['metadata'] or result.get('metadata', {}) of the dict at a
MetadataOf(heap, a) ==
    IF "ref" \in DOMAIN heap[a].metadata
    THEN heap[heap[a].metadata.ref].metadata
    ELSE heap[a].metadata.own

\* target[key] = value, where the target is the dict at an address or the
\* metadata dict it holds
Store(heap, target, key, value) ==
    IF target.part = "dict"
    THEN [heap EXCEPT ![target.at] = (key :> value) @@ @]
    ELSE IF "ref" \in DOMAIN heap[target.at].metadata
    THEN [heap EXCEPT ![heap[target.at].metadata.ref].metadata = (key :> value) @@ @]
    ELSE [heap EXCEPT ![target.at].metadata.own = (key :> value) @@ @]

\* the dict at a as the ranking functions read it
View(heap, a) ==
    LET meta == MetadataOf(heap, a)
    IN  [heap[a] EXCEPT !.source_file = meta.source_file,
                        !.chunk_index = meta.chunk_index,
                        !.is_child = meta.is_child] @@ [at |-> a]

\* lines 606-613 and 1160-1164: one dict for every chunk a search of the
\* index found; its metadata is the Document's metadata dict itself
FoundDicts(heap, hits, dist, hybrid) ==
    [j \in 1..Len(hits) |->
        LET doc == heap[hits[j]]
            chunk == [id |-> Head(doc.page_content)] @@ doc.metadata
            fused == HybridScore(65, NormalizedVectorScore(dist[j]), 0)
        IN  MkResult(chunk, dist[j], IF hybrid THEN fused ELSE Absent)
                @@ [metadata |-> [ref |-> hits[j]], enhanced_content |-> <<>>]]

\* the value of a set of one element
Only(S) == CHOOSE x \in S : TRUE

\* lines 1087-1096: the merged items are new dicts, each with a copy of the
\* metadata of its group's first chunk; the other items are the dicts found
AllocateMerged(heap, items) ==
    LET is_new == [p \in 1..Len(items) |-> "at" \notin DOMAIN items[p]]
        new == SelectSeq([p \in 1..Len(items) |-> p], LAMBDA p : is_new[p])
        address(p) == Len(heap) + Cardinality({q \in 1..p : is_new[q]})
        merged_result(p) ==
            LET first == CHOOSE i \in 1..Len(Corpus) :
                             heap[i].metadata.chunk_index = items[p].chunk_index
            IN  items[p] @@ [metadata |-> [own |-> heap[first].metadata],
                             enhanced_content |-> <<>>]
    IN  [heap |-> heap \o [r \in 1..Len(new) |-> merged_result(new[r])],
         results |-> [p \in 1..Len(items) |->
                         IF is_new[p] THEN merged_result(p) @@ [at |-> address(p)]
                         ELSE items[p]]]

\* target[key] = value for every write of a list, in its order
RECURSIVE StoreAll(_, _, _)
StoreAll(heap, writes, i) ==
    IF i > Len(writes) THEN heap
    ELSE Only({StoreAll(stored, writes, i + 1) :
                 stored \in {Store(heap, writes[i].target, writes[i].key,
                                   writes[i].value)}})

\* lines 807, 843, 894, 911: _rerank_results writes its scores to the dicts
\* of the list it was given
ScoreWrites(written) ==
    [p \in 1..(2 * Len(written)) |->
        LET result == written[(p + 1) \div 2]
        IN  IF p % 2 = 1
            THEN [target |-> [part |-> "dict", at |-> result.at],
                  key |-> "rerank_score", value |-> result.rerank_score]
            ELSE [target |-> [part |-> "dict", at |-> result.at],
                  key |-> "combined_score", value |-> result.combined_score]]

ParentContextOwner_Metadata(a) == [part |-> "metadata", at |-> a]

\* lines 1247 and 1249: the object whose keys step 7 sets is `result`
ParentContextOwner(a) == [part |-> "dict", at |-> a]

\* step 7 (lines 1243-1249) for the dicts at the addresses of final_results
ParentContextWrites(heap, final_results) ==
    LET children == SelectSeq(final_results,
                              LAMBDA a : /\ MetadataOf(heap, a).is_child
                                         /\ MetadataOf(heap, a).parent_content_preview # Absent)
    IN  [p \in 1..(2 * Len(children)) |->
            LET a == children[(p + 1) \div 2]
                parent_context == MetadataOf(heap, a).parent_content_preview
            IN  IF p % 2 = 1
                THEN [target |-> ParentContextOwner(a),
                      key |-> "parent_context", value |-> parent_context]
                ELSE [target |-> ParentContextOwner(a),
                      key |-> "enhanced_content",
                      value |-> heap[a].content \o <<parent_context>>]]

\* what the searches of a query's variants found: chunk positions, with
\* the distance of each find
HitLists == SeqsOf(1..Len(Corpus), 1, MaxHits)
HitDistances(n) == [1..n -> {20, 60}]

\* steps 3 and 4 (lines 1168-1207) for the dicts at found + 1 .. found + n
UniqueOnHeap(heap, found, n, merge_context) ==
    LET unique == Deduplicate(List([j \in 1..n |-> View(heap, found + j)]))
    IN  List(IF merge_context THEN MergeSimilarChunks(unique) ELSE unique)

FrameOptions ==
    [merge_context : BOOLEAN, use_reranking : BOOLEAN, ensure_diversity : BOOLEAN]

\* search_documents (lines 1124-1252) on a manager whose index was built,
\* for what the index searches of lines 1143-1166 found.  The call keeps the
\* heap before and after, and the addresses of the dicts returned.
SearchOnHeapCall ==
    /\ ~call.done
    /\ \E hits \in HitLists, hybrid \in BOOLEAN, options \in FrameOptions :
       \E dist \in HitDistances(Len(hits)),
          response \in IF options.use_reranking
                       THEN SearchRerankResponses(Len(hits))
                       ELSE {[kind |-> "none", nums |-> <<>>]} :
       \E before \in {IndexedHeap} :
       \E found \in {before \o FoundDicts(before, hits, dist, hybrid)} :
       \E items \in {UniqueOnHeap(found, Len(before), Len(hits), options.merge_context)} :
       \E merged \in {AllocateMerged(found, items)} :
       \E written \in {IF options.use_reranking /\ response.kind # "raise"
                       THEN RerankResults(TRUE, response, merged.results,
                                          Len(merged.results)).value
                       ELSE <<>>} :
       \E ranked \in {IF options.use_reranking
                      THEN RerankStep(response, merged.results, 2)
                      ELSE SortByScore(merged.results, 2)} :
       \E final_results \in {IF options.ensure_diversity
                             THEN EnsureSourceDiversity(ranked, 2, Min(3, 2))
                             ELSE Take(ranked, 2)} :
       \E addresses \in {List([p \in 1..Len(final_results) |-> final_results[p].at])} :
       \E scored \in {StoreAll(merged.heap, List(ScoreWrites(written)), 1)} :
       \E after \in {StoreAll(scored, List(ParentContextWrites(scored, addresses)), 1)} :
          call' = [done |-> TRUE, fn |-> "search_documents",
                   options |-> options, before |-> before,
                   heap |-> after, value |-> addresses]
    /\ UNCHANGED <<rerank_call, diversity_call, merge_call, manager_vars, search_vars, rebuild_vars>>

SpecFrame == InitCalls /\ [][SearchOnHeapCall]_vars

\* ------------------------------------------------------------------------
\* Claims about what a query writes (SpecFrame)
\* ------------------------------------------------------------------------

\* C20: after any search_documents call, with any options and any answer of
\* the rerank service, every indexed chunk's text and metadata are what they
\* were before the call, and what they were when the index was built: the
\* scores, the merged items, parent_context and enhanced_content are in
\* dicts the query created.
C20_QueryWritesOnlyItsOwnRecords ==
    call.done =>
        /\ \A a \in 1..Len(call.before) : call.heap[a] = call.before[a]
        /\ Take(call.heap, Len(Corpus)) = IndexedHeap
        /\ \A p \in 1..Len(call.value) : call.value[p] > Len(call.before)

\* a query returned a merged item that carries rerank scores and the parent
\* context of a child chunk
C20_Witness ==
    /\ call.done
    /\ \E p \in 1..Len(call.value) :
          LET result == call.heap[call.value[p]]
          IN  /\ result.merged_chunks # Absent
              /\ result.rerank_score # Absent
              /\ result.parent_context # Absent
              /\ result.enhanced_content # <<>>

\* ========================================================================
\* process_documents: parent and child chunks
\* ========================================================================
\* A text is known by its length and a chunk by its span in its document.
\* The two splitters are library calls: what they return is an input.

MaxDocs == 2

\* chunk_size and chunk_overlap of __init__ (lines 32-33)
ChunkSize == 400
ChunkOverlap == 100

\* line 243: len(child_content.strip()) < 20
MinChildLength == 20

\* line 231: max(150, self.chunk_size // 2)
ChildChunkSize == Max(150, ChunkSize \div 2)

DocLengths == {5, 19, 20, 30, 450}

Piece(start, len) == [start |-> start, len |-> len]

\* self.text_splitter.split_documents([doc]) (line 221) for a document of
\* `length` characters: the whole text, or two overlapping pieces; a piece is
\* of chunk_size at most, or one the splitter could not cut further
ParentSplits(length) ==
    IF length <= ChunkSize THEN {<<Piece(0, length)>>}
    ELSE {<<Piece(0, length)>>}
         \cup {<<Piece(0, first), Piece(first - ChunkOverlap, length - first + ChunkOverlap)>> :
                  first \in {ChunkSize - 10, ChunkSize, ChunkSize + 10}}

\* child_splitter.split_text(parent_content) (line 237) for a parent of
\* `length` characters: overlapping pieces of child_chunk_size, the rest in
\* one piece or in two, the last a few characters long.  Starts are counted
\* from the parent's start.
ChildSplits(length) ==
    LET step == ChildChunkSize - ChunkOverlap \div 2
    IN  {<<Piece(0, ChildChunkSize), Piece(step, ChildChunkSize),
           Piece(2 * step, length - 2 * step)>>,
         <<Piece(0, ChildChunkSize), Piece(step, ChildChunkSize),
           Piece(2 * step, length - 2 * step - 10), Piece(length - 10, 10)>>}

\* the documents process_documents is given, each with what the splitters
\* make of it: children[p] is the split of parent piece p, <<>> where line
\* 229 asks for none
Splittings ==
    UNION {UNION {{[length |-> length, parents |-> parents, children |-> children] :
                      children \in {c \in [1..Len(parents) ->
                                              UNION {ChildSplits(parents[p].len) \cup {<<>>} :
                                                        p \in 1..Len(parents)}] :
                                       \A p \in 1..Len(parents) :
                                           IF parents[p].len > ChunkSize
                                           THEN c[p] \in ChildSplits(parents[p].len)
                                           ELSE c[p] = <<>>}} :
                     parents \in ParentSplits(length)} :
              length \in DocLengths}

\* lines 241-257: the child chunks of parent piece parent_idx of document d
ChildChunks(d, parent, parent_idx, child_chunks) ==
    LET kept == SelectSeq([c \in 1..Len(child_chunks) |-> c],
                          LAMBDA c : ~(child_chunks[c].len < MinChildLength))
    IN  [r \in 1..Len(kept) |->
            [document |-> d,
             start |-> parent.start + child_chunks[kept[r]].start,
             len |-> child_chunks[kept[r]].len,
             parent_chunk_index |-> parent_idx,
             child_chunk_index |-> kept[r] - 1,
             is_child |-> TRUE,
             is_parent |-> FALSE]]

\* lines 259-266: a piece of chunk_size at most is kept as it is
ParentChunk(d, parent, parent_idx) ==
    [document |-> d,
     start |-> parent.start,
     len |-> parent.len,
     parent_chunk_index |-> parent_idx,
     child_chunk_index |-> Absent,
     is_child |-> FALSE,
     is_parent |-> TRUE]

\* lines 224-266 for document d
RECURSIVE ChunksOfDocument(_, _, _)
ChunksOfDocument(d, doc, p) ==
    IF p > Len(doc.parents) THEN <<>>
    ELSE (IF doc.parents[p].len > ChunkSize
          THEN ChildChunks(d, doc.parents[p], p - 1, doc.children[p])
          ELSE <<ParentChunk(d, doc.parents[p], p - 1)>>)
         \o ChunksOfDocument(d, doc, p + 1)

\* lines 219-266: the chunks of all documents, in the documents' order
RECURSIVE ChunksFrom(_, _)
ChunksFrom(documents, d) ==
    IF d > Len(documents) THEN <<>>
    ELSE ChunksOfDocument(d, documents[d], 1) \o ChunksFrom(documents, d + 1)

\* process_documents (lines 199-303): lines 272-289 number the chunks
ChunkDocuments(documents) ==
    LET chunks == List(ChunksFrom(documents, 1))
    IN  List([i \in 1..Len(chunks) |-> chunks[i] @@ [chunk_index |-> i - 1]])

ProcessDocumentsCall ==
    /\ ~call.done
    /\ \E documents \in SeqsOf(Splittings, 1, MaxDocs) :
       \E chunks \in {ChunkDocuments(documents)} :
          call' = [done |-> TRUE, fn |-> "process_documents",
                   documents |-> documents, all_chunks |-> chunks]
    /\ UNCHANGED <<rerank_call, diversity_call, merge_call, manager_vars, search_vars, rebuild_vars>>

SpecChunking == InitCalls /\ [][ProcessDocumentsCall]_vars

\* ------------------------------------------------------------------------
\* Claims about the chunk set (SpecChunking)
\* ------------------------------------------------------------------------

\* chunk `outer` holds the span of chunk `inner` of the same document
SpanContains(outer, inner) ==
    /\ outer.document = inner.document
    /\ outer.start <= inner.start
    /\ inner.start + inner.len <= outer.start + outer.len

\* the chunks of the set a child's parent_chunk_index can stand for: the
\* chunk at that position, or the parent chunk of the child's document that
\* carries that parent_chunk_index
ParentsOf(chunks, child) ==
    {q \in 1..Len(chunks) :
        /\ chunks[q] # child
        /\ \/ chunks[q].chunk_index = child.parent_chunk_index
           \/ /\ chunks[q].is_parent
              /\ chunks[q].document = child.document
              /\ chunks[q].parent_chunk_index = child.parent_chunk_index}

C22_NoChunkBelowMinimum ==
    (call.done /\ call.fn = "process_documents") =>
        \A c \in 1..Len(call.all_chunks) :
            call.all_chunks[c].len >= MinChildLength

\* the part of C22 that the code keeps: no child chunk is shorter than 20
\* characters
ChildrenAtLeastMinimum ==
    (call.done /\ call.fn = "process_documents") =>
        \A c \in 1..Len(call.all_chunks) :
            call.all_chunks[c].is_child => call.all_chunks[c].len >= MinChildLength

\* ------------------------------------------------------------------------
\* Claims about the index of a manager (Spec)
\* ------------------------------------------------------------------------

\* C23: whenever the dense index is set, by create_vector_store or by
\* load_vector_store, the BM25 index and the chunk list are set too and hold
\* the chunks of the dense index.
C23_BothStructuresCoverTheChunks ==
    vector_store # <<>> => (bm25 /\ all_chunks = vector_store)

\* the part of C23 that concerns create_vector_store: the BM25 index is
\* never set without the chunk list and the dense index of the same chunks
CreatedStructuresCoverTheChunks ==
    bm25 => (vector_store # <<>> /\ all_chunks = vector_store)

\* ========================================================================
\* get_vector_store_status and the global tool instance
\* ========================================================================
\* `tool` is the manager of _vector_search_tool_instance, 0 while the
\* instance is None; `managers` holds the index of every manager made.  What
\* the environment and the libraries do at a call is an input of the call:
\* api_key (GOOGLE_API_KEY is set), embeddings_ok (initialize_embeddings
\* succeeds), saved (an index is on disk and loads), info_ok (the lookup of
\* lines 1270-1281 does not raise), dimension (what embed_query yields).

EmbeddingDimensions == {"unknown", "768"}

StatusInputs ==
    [api_key : BOOLEAN, embeddings_ok : BOOLEAN, saved : BOOLEAN,
     info_ok : BOOLEAN, dimension : EmbeddingDimensions]

\* VectorSearchTool() (vector_search.py lines 23-69): the exception it
\* raises, or the index of its manager
ConstructTool(in) ==
    IF ~in.api_key THEN [raised |-> "ValueError", index |-> NoIndex]
    ELSE IF ~in.embeddings_ok THEN [raised |-> "RuntimeError", index |-> NoIndex]
    ELSE [raised |-> "", index |-> IF in.saved THEN LoadedIndex(1) ELSE NoIndex]

\* get_vector_search_tool() (vector_search.py lines 313-318): the instance
\* is made at the first call that can make it
GetVectorSearchTool(in) ==
    IF tool # 0 THEN [raised |-> "", index |-> managers[tool]]
    ELSE ConstructTool(in)

\* get_vector_store_info (lines 1258-1285)
GetVectorStoreInfo(index, in) ==
    IF index.vector_store = 0 THEN [status |-> "not_initialized"]
    ELSE IF in.info_ok
    THEN [status |-> "initialized", index_type |-> "FAISS",
          embedding_dimension |-> in.dimension, total_vectors |-> "3"]
    ELSE [status |-> "error", error |-> "lookup failed"]

StatusOfInfo_NoInitializedTest(info) ==
    IF MetaGet(info, "status", "") = "error"
    THEN [status |-> "error", message |-> MetaGet(info, "error", "Unknown error"),
          available |-> FALSE]
    ELSE [status |-> "ready", message |-> "Vector store is ready", available |-> TRUE,
          details |-> [index_type |-> MetaGet(info, "index_type", "unknown"),
                       embedding_dimension |-> MetaGet(info, "embedding_dimension", "unknown"),
                       total_vectors |-> MetaGet(info, "total_vectors", "unknown")]]

\* vector_search.py lines 389-413: the dict made of the info
StatusOfInfo(info) ==
    IF MetaGet(info, "status", "") = "not_initialized"
    THEN [status |-> "error", message |-> "Vector store is not initialized.",
          available |-> FALSE]
    ELSE IF MetaGet(info, "status", "") = "error"
    THEN [status |-> "error", message |-> MetaGet(info, "error", "Unknown error"),
          available |-> FALSE]
    ELSE [status |-> "ready", message |-> "Vector store is ready", available |-> TRUE,
          details |-> [index_type |-> MetaGet(info, "index_type", "unknown"),
                       embedding_dimension |-> MetaGet(info, "embedding_dimension", "unknown"),
                       total_vectors |-> MetaGet(info, "total_vectors", "unknown")]]

\* vector_search.py lines 385-419: try ... except Exception
GetVectorStoreStatus(in) ==
    LET tool_instance == GetVectorSearchTool(in)
    IN  IF tool_instance.raised # ""
        THEN [raised |-> FALSE,
              value |-> [status |-> "error", message |-> tool_instance.raised,
                         available |-> FALSE]]
        ELSE [raised |-> FALSE,
              value |-> StatusOfInfo(GetVectorStoreInfo(tool_instance.index, in))]

\* the global instance after get_vector_search_tool()
ToolAfterGet(in) ==
    /\ IF tool = 0 /\ ConstructTool(in).raised = ""
       THEN /\ managers' = Append(managers, ConstructTool(in).index)
            /\ tool' = Len(managers) + 1
       ELSE UNCHANGED <<managers, tool>>

\* a caller asks for the status
GetVectorStoreStatusCall ==
    /\ \E in \in StatusInputs :
          /\ call' = [done |-> TRUE, fn |-> "get_vector_store_status", in |-> in,
                      loaded |-> GetVectorSearchTool(in).raised = ""
                                 /\ GetVectorSearchTool(in).index.vector_store # 0,
                      out |-> GetVectorStoreStatus(in)]
          /\ ToolAfterGet(in)
    /\ UNCHANGED <<rerank_call, diversity_call, merge_call, manager_vars, search_vars,
                   build, reader>>

\* vector_search_tool(query) (vector_search.py lines 321-336): search on the
\* global instance, up to the test of lines 91-95.  `after` is the status a
\* call of get_vector_store_status returned right before, if one did.
ToolSearchCall ==
    /\ \E in \in StatusInputs :
          LET tool_instance == GetVectorSearchTool(in)
              error == IF tool_instance.raised # "" THEN tool_instance.raised
                       ELSE IF tool_instance.index.vector_store = 0
                       THEN "Vector store not available"
                       ELSE ""
          IN  /\ call' = [done |-> TRUE, fn |-> "vector_search_tool", in |-> in,
                          after |-> IF call.done /\ call.fn = "get_vector_store_status"
                                    THEN call.out.value.available ELSE FALSE,
                          error |-> error]
              /\ ToolAfterGet(in)
    /\ UNCHANGED <<rerank_call, diversity_call, merge_call, manager_vars, search_vars,
                   build, reader>>

SpecStatus == InitCalls /\ [][GetVectorStoreStatusCall \/ ToolSearchCall]_vars

\* ------------------------------------------------------------------------
\* Claims about the status (SpecStatus)
\* ------------------------------------------------------------------------

\* C24: get_vector_store_status never raises and returns a dict with the
\* keys 'status' and 'available', whether the tool cannot be constructed,
\* has no store loaded, has one loaded, or the lookup of the store's info
\* fails; 'available' is True exactly in the third of these states, the
\* store loaded and its info read; and a search issued right after a status
\* with 'available' True does not fail with 'Vector store not available'.
C24_StatusIsTotalAndTruthful ==
    /\ (call.done /\ call.fn = "get_vector_store_status") =>
          /\ ~call.out.raised
          /\ {"status", "available"} \subseteq DOMAIN call.out.value
          /\ call.out.value.available = (call.loaded /\ call.in.info_ok)
    /\ (call.done /\ call.fn = "vector_search_tool" /\ call.after) =>
          call.error # "Vector store not available"

\* a status with 'available' True was returned, and a search was issued
\* right after it
C24_Witness ==
    /\ call.done
    /\ call.fn = "vector_search_tool"
    /\ call.after
    /\ call.error = ""

\* ========================================================================
\* Water objects: the inspection priority
\* ========================================================================
\* models/water_object.py and services/objects/service.py.  Dates and the
\* clock are day numbers; (datetime.now() - passport_date).days is their
\* difference.  The model follows one water object, the row of id 1, from
\* before its creation: the table, the clock and the last operation are the
\* fields db, now and last of `call`.

MaxClockSteps == 1
DaysPerYear == 365
Today == 10 * DaysPerYear

\* passport dates a request can carry: today, one day short of a year ago,
\* one and four years ago, and tomorrow
PassportDates ==
    {Today - d : d \in {0, DaysPerYear - 1, DaysPerYear, 4 * DaysPerYear}}
    \cup {Today + 1}

TechnicalConditions == 1..5

\* Python's // : the floor of the quotient, also of a negative one
FloorDiv(a, b) == IF a >= 0 THEN a \div b ELSE 0 - ((b - 1 - a) \div b)

\* calculate_priority (service.py lines 17-38, water_object.py lines 82-100)
CalculatePriority(technical_condition, passport_date, now) ==
    LET condition_score == (6 - technical_condition) * 3
        passport_age == IF passport_date # Absent
                        THEN FloorDiv(now - passport_date, DaysPerYear)
                        ELSE 0
    IN  condition_score + passport_age

\* get_priority_level (service.py lines 40-56, water_object.py lines 102-117)
GetPriorityLevel(score) ==
    IF score >= 10 THEN "high"
    ELSE IF score >= 6 THEN "medium"
    ELSE "low"

\* WaterObject.update_priority (water_object.py lines 119-122)
UpdatePriority(object, now) ==
    LET priority == CalculatePriority(object.technical_condition, object.passport_date, now)
    IN  [object EXCEPT !.priority = priority,
                       !.priority_level = GetPriorityLevel(priority)]

\* WaterObjectCreate (schemas.py lines 7-32): technical_condition is
\* required and in 1..5, passport_date is optional
WaterObjectCreates ==
    [name : {"a"}, technical_condition : TechnicalConditions,
     passport_date : PassportDates \cup {Absent}]

\* WaterObjectUpdate after model_dump(exclude_unset=True) (schemas.py lines
\* 34-51, service.py line 128): any of the fields, technical_condition and
\* passport_date possibly null
WaterObjectUpdates ==
    LET values(f) == IF f = "technical_condition" THEN TechnicalConditions \cup {Absent}
                     ELSE IF f = "passport_date" THEN PassportDates \cup {Absent}
                     ELSE {0}
    IN  UNION {{update_data \in [fields -> TechnicalConditions \cup PassportDates
                                           \cup {Absent, 0}] :
                   \A f \in fields : update_data[f] \in values(f)} :
               fields \in {{"name"}, {"technical_condition"}, {"passport_date"},
                           {"technical_condition", "passport_date"}}}

NoOperation == [op |-> "none", id |-> 0, raised |-> FALSE, fields |-> {}]

InitWater ==
    /\ rerank_call = NoCall
    /\ diversity_call = NoCall
    /\ merge_call = NoCall
    /\ call = [done |-> TRUE, fn |-> "water_objects", now |-> Today, steps |-> 0,
               db |-> <<>>, last |-> NoOperation]
    /\ InitManager
    /\ disk = <<>>
    /\ NoRebuild

UnchangedButWater ==
    UNCHANGED <<rerank_call, diversity_call, merge_call, manager_vars, search_vars,
                rebuild_vars>>

\* WaterObjectService.create (service.py lines 58-88)
WaterObjectCreate ==
    /\ call.db = <<>>
    /\ \E water_object_data \in WaterObjectCreates :
          LET priority == CalculatePriority(water_object_data.technical_condition,
                                            water_object_data.passport_date, call.now)
              db_water_object ==
                  [name |-> water_object_data.name,
                   technical_condition |-> water_object_data.technical_condition,
                   passport_date |-> water_object_data.passport_date,
                   priority |-> priority,
                   priority_level |-> GetPriorityLevel(priority)]
          IN  call' = [call EXCEPT !.db = Append(@, db_water_object),
                                   !.last = [op |-> "create", id |-> Len(call.db) + 1,
                                             raised |-> FALSE, fields |-> {}]]
    /\ UnchangedButWater

\* the fields of update_data assigned to the object (service.py lines 129-130)
SetFields(object, update_data) ==
    [f \in DOMAIN object |->
        IF f \in DOMAIN update_data
        THEN (IF f = "name" THEN "a" ELSE update_data[f])
        ELSE object[f]]

RecalculatesPriority_ConditionOnly(update_data) ==
    "technical_condition" \in DOMAIN update_data

\* service.py line 134
RecalculatesPriority(update_data) ==
    "technical_condition" \in DOMAIN update_data \/ "passport_date" \in DOMAIN update_data

\* WaterObjectService.update (service.py lines 107-141).  6 - None raises
\* TypeError in calculate_priority, before the commit.
WaterObjectUpdate ==
    /\ \E water_object_id \in {1}, update_data \in WaterObjectUpdates :
          LET done(id, raised) == [op |-> "update", id |-> id, raised |-> raised,
                                   fields |-> DOMAIN update_data]
          IN  IF water_object_id > Len(call.db)
              THEN call' = [call EXCEPT !.last = done(0, FALSE)]
              ELSE LET assigned == SetFields(call.db[water_object_id], update_data)
                   IN  IF ~RecalculatesPriority(update_data)
                       THEN call' = [call EXCEPT !.db[water_object_id] = assigned,
                                                 !.last = done(water_object_id, FALSE)]
                       ELSE IF assigned.technical_condition = Absent
                       THEN call' = [call EXCEPT !.last = done(water_object_id, TRUE)]
                       ELSE call' = [call EXCEPT
                                        !.db[water_object_id] = UpdatePriority(assigned, call.now),
                                        !.last = done(water_object_id, FALSE)]
    /\ UnchangedButWater

\* obj.update_priority() on a stored object (scripts/enrich_water_objects.py
\* line 267, scripts/test_priority_calculation.py line 110)
UpdatePriorityCall ==
    /\ \E water_object_id \in 1..Len(call.db) :
          call' = [call EXCEPT !.db[water_object_id] = UpdatePriority(@, call.now),
                               !.last = [op |-> "update_priority", id |-> water_object_id,
                                         raised |-> FALSE, fields |-> {}]]
    /\ UnchangedButWater

\* time passes: a day or a year
ClockStep ==
    /\ call.steps < MaxClockSteps
    /\ \E days \in {1, DaysPerYear} :
          call' = [call EXCEPT !.now = @ + days, !.steps = @ + 1, !.last = NoOperation]
    /\ UnchangedButWater

SpecWater ==
    InitWater /\ [][WaterObjectCreate \/ WaterObjectUpdate \/ UpdatePriorityCall
                    \/ ClockStep]_vars

\* ------------------------------------------------------------------------
\* Claims about the priority (SpecWater)
\* ------------------------------------------------------------------------

\* the number of whole 365-day years from passport_date to now, 0 without
\* a passport date
WholeYearsSince(passport_date, now) ==
    IF passport_date = Absent THEN 0
    ELSE CHOOSE y \in (0 - 1)..(now \div DaysPerYear) :
            /\ y * DaysPerYear <= now - passport_date
            /\ now - passport_date < (y + 1) * DaysPerYear

\* C25: right after update_priority, after a create and after an update that
\* sets technical_condition or passport_date, the object's priority is
\* (6 - technical_condition) * 3 + the whole years since passport_date (0
\* without one), and its level is high exactly when priority >= 10, medium
\* exactly when 6 <= priority <= 9 and low exactly when priority <= 5, for
\* every technical_condition in 1..5.
C25_PriorityFollowsTheFormula ==
    (\/ call.last.op \in {"create", "update_priority"}
     \/ /\ call.last.op = "update"
        /\ call.last.id # 0
        /\ ~call.last.raised
        /\ call.last.fields \cap {"technical_condition", "passport_date"} # {}) =>
        LET object == call.db[call.last.id]
        IN  /\ object.technical_condition \in TechnicalConditions
            /\ object.priority = (6 - object.technical_condition) * 3
                                 + WholeYearsSince(object.passport_date, call.now)
            /\ (object.priority_level = "high") = (object.priority >= 10)
            /\ (object.priority_level = "medium")
                 = (6 <= object.priority /\ object.priority <= 9)
            /\ (object.priority_level = "low") = (object.priority <= 5)

\* an update set only the passport date of an object whose stored priority
\* was of another day, and the object is at the boundary of high
C25_Witness ==
    /\ call.last.op = "update"
    /\ call.last.id # 0
    /\ call.last.fields = {"passport_date"}
    /\ call.now > Today
    /\ call.db[call.last.id].passport_date # Absent
    /\ call.db[call.last.id].priority = 10

\* ------------------------------------------------------------------------
\* Claims about what _merge_similar_chunks puts together (SpecMerge)
\* ------------------------------------------------------------------------

\* the output item is, or was merged from, the candidate
ItemContains(item, candidate) ==
    /\ item.source_file = candidate.source_file
    /\ IF item.merged_chunks # Absent
       THEN \E p \in 1..Len(item.chunk_indices) :
               item.chunk_indices[p] = candidate.chunk_index
       ELSE item.chunk_index = candidate.chunk_index

\* C26: after _merge_similar_chunks, two input candidates of the same source
\* whose chunk positions differ by at most 3 are contained in the same
\* output item, whatever the order of the candidates in the input list.
C26_NeighboursEndInOneItem ==
    merge_call.done =>
        \A p, q \in 1..Len(merge_call.results) :
            (/\ merge_call.results[p].source_file = merge_call.results[q].source_file
             /\ Abs(merge_call.results[p].chunk_index
                    - merge_call.results[q].chunk_index) <= 3) =>
                \E i \in 1..Len(merge_call.once) :
                    /\ ItemContains(merge_call.once[i], merge_call.results[p])
                    /\ ItemContains(merge_call.once[i], merge_call.results[q])

\* C28: merging never makes a candidate rank worse in the ordering used when
\* reranking is skipped: the sort key of a merged item (hybrid_score if
\* present, else 1 - similarity_score) is at least the key of each candidate
\* it was merged from, in hybrid mode and in dense-only mode.
C28_MergedKeyAtLeastConstituents ==
    merge_call.done =>
        \A i \in 1..Len(merge_call.once) :
            merge_call.once[i].merged_chunks # Absent =>
                \A p \in 1..Len(merge_call.results) :
                    ItemContains(merge_call.once[i], merge_call.results[p]) =>
                        FusedKey(merge_call.once[i]) >= FusedKey(merge_call.results[p])

\* the same of the candidates of a hybrid search, which carry hybrid_score
MergedKeyAtLeastConstituentsHybrid ==
    merge_call.done =>
        \A i \in 1..Len(merge_call.once) :
            merge_call.once[i].merged_chunks # Absent =>
                \A p \in 1..Len(merge_call.results) :
                    (/\ ItemContains(merge_call.once[i], merge_call.results[p])
                     /\ merge_call.results[p].hybrid_score # Absent) =>
                        FusedKey(merge_call.once[i]) >= FusedKey(merge_call.results[p])

\* ------------------------------------------------------------------------
\* Claims about the list search_documents returns (Spec)
\* ------------------------------------------------------------------------

\* C27: in every non-empty list search_documents returns, element 0 is a
\* best element under the score the pipeline ranked by: of maximal
\* combined_score when the results carry rerank scores, otherwise of maximal
\* fused score or of minimal distance.
C27_FirstResultIsBest ==
    (pc = "returned" /\ ret.value # <<>>) =>
        LET results == ret.value
            n == Len(results)
        IN  IF \E i \in 1..n : results[i].rerank_score # Absent
            THEN \A i \in 1..n : CombinedKey(results[1]) >= CombinedKey(results[i])
            ELSE \/ \A i \in 1..n : FusedKey(results[1]) >= FusedKey(results[i])
                 \/ \A i \in 1..n :
                       results[1].similarity_score <= results[i].similarity_score

\* ========================================================================
\* search_documents with a failing rerank call and with reranking off
\* ========================================================================
\* Two documents that begin with the same text (a shared heading): the first
\* chunk of file B starts with the same 150 characters as the first of file A.
FallbackCorpus ==
    <<Chunk(0, "A", 0, FALSE), Chunk(1, "A", 1, TRUE), Chunk(SharedPrefix, "B", 2, FALSE)>>

\* steps 2 to 4 (lines 1143-1207) for the one variant of use_multi_query=False
FallbackCandidates(hybrid, dist, bm, k, use_reranking, merge_context) ==
    LET fetch_k == IF use_reranking THEN k * 8 ELSE k * 3
        query_results == IF hybrid
                         THEN HybridSearch(FallbackCorpus, FallbackCorpus, TRUE, dist, bm,
                                           k * 3, 65)
                         ELSE VectorSearch(FallbackCorpus, dist, fetch_k)
        unique == Deduplicate(query_results)
    IN  IF merge_context THEN MergeSimilarChunks(unique) ELSE unique

\* the same search_documents call twice: with use_reranking=True and a
\* rerank call that raises, and with use_reranking=False
FallbackCall ==
    /\ ~call.done
    /\ \E hybrid \in BOOLEAN, dist \in DistProfiles(FallbackCorpus),
          bm \in BM25Profiles(FallbackCorpus), k \in 1..MaxSearchK,
          merge_context \in BOOLEAN, ensure_diversity \in BOOLEAN :
          \E with_rerank \in {FallbackCandidates(hybrid, dist, bm, k, TRUE, merge_context)},
             without \in {FallbackCandidates(hybrid, dist, bm, k, FALSE, merge_context)} :
             \E failed \in {RerankStep([kind |-> "raise", nums |-> <<>>], with_rerank, k)},
                skipped \in {SortByScore(without, k)} :
                call' = [done |-> TRUE, fn |-> "search_documents_fallback",
                         hybrid |-> hybrid, dist |-> dist, bm |-> bm, k |-> k,
                         merge_context |-> merge_context,
                         ensure_diversity |-> ensure_diversity,
                         candidates |-> with_rerank,
                         failed |-> FinalResults(failed, k, ensure_diversity),
                         skipped |-> FinalResults(skipped, k, ensure_diversity)]
    /\ UNCHANGED <<rerank_call, diversity_call, merge_call, manager_vars, search_vars,
                   rebuild_vars>>

SpecFallback == InitCalls /\ [][FallbackCall]_vars

\* ------------------------------------------------------------------------
\* Claims about the fallback (SpecFallback)
\* ------------------------------------------------------------------------

\* C29: a search_documents call whose rerank call raises returns the same
\* list, the same items in the same order, as the same call made with
\* use_reranking=False, also when candidates of different sources share the
\* first 50 characters of their text.
C29_FailedRerankEqualsNoRerank ==
    (call.done /\ call.fn = "search_documents_fallback") =>
        call.failed = call.skipped

\* the same for candidate sets in which no two texts share their first 50
\* characters
FailedRerankEqualsNoRerankDistinctPrefixes ==
    (/\ call.done
     /\ call.fn = "search_documents_fallback"
     /\ \A p, q \in 1..Len(call.candidates) :
           p # q => Prefix50(call.candidates[p].content)
                        # Prefix50(call.candidates[q].content)) =>
        call.failed = call.skipped

\* ------------------------------------------------------------------------
\* Claims about the lexical component of the fused score (SpecHybrid)
\* ------------------------------------------------------------------------

\* C30: in _hybrid_search a chunk whose raw BM25 score for the query is 0
\* receives a lexical component of 0 in its fused score, so its fused score
\* is the weighted dense component alone, also when the BM25 search is asked
\* for at least as many results as the corpus has chunks.
C30_NoSharedTermNoLexicalScore ==
    (call.done /\ call.fn = "hybrid_search") =>
        \A p \in 1..Len(call.fused) :
            LET i == CHOOSE j \in 1..Len(Corpus) : <<Corpus[j].id>> = call.fused[p].content
                vector_score ==
                    IF \E q \in 1..Len(call.vector_results) : call.vector_results[q] = i
                    THEN NormalizedVectorScore(call.dist[i])
                    ELSE 0
            IN  call.bm[i] = 0 =>
                    call.fused[p].hybrid_score
                        = HybridScore(call.vector_weight, vector_score, 0)

============================================================================
